---- MODULE Spec2Model ----
(***************************************************************************)
(* Vecinito (src/bot.py): the debounced message queue (cola_mensajes,      *)
(* agregar_mensaje_a_cola, _esperar_y_procesar), the response cache of     *)
(* obtener_respuesta and the hourly sweep limpiar_cache_periodico; the      *)
(* cache key, the session memory (LRUDict, history, location), retrieval   *)
(* and annotation of the catalog, and the schedule parser                  *)
(* esta_abierto_ahora.                                                     *)
(*                                                                         *)
(* Scheduling: one asyncio event loop.  A coroutine runs without           *)
(* interruption between two awaits, so one action is the code from one     *)
(* await to the next.  `async with lock` is an await: a task may be        *)
(* suspended there until the lock is free, so acquiring a lock is an       *)
(* action of its own and the critical section is the action after it.      *)
(* asyncio.sleep(DEBOUNCE_SEGUNDOS) has the same delay for every flush     *)
(* task, so flush tasks leave the sleep in the order they were created.    *)
(***************************************************************************)
EXTENDS Integers, Sequences, FiniteSets, TLC

\* ------------------------------------------------------------------ bounds
\* enqueue calls in one behaviour (agregar_mensaje_a_cola)
MaxEnq == 4

\* calls of obtener_respuesta in one behaviour
MaxConsultas == 2
\* calls of verificar_rate_limit in one behaviour
MaxVerif == 1
\* last value of the clock
MaxReloj == 2
\* capacity of a response cache, scaled down from 1000 (bot.py:110)
MAX_CACHE_RESPUESTAS == 1
\* messages a user may send per minute, scaled down from 10 (bot.py:112)
MAX_MENSAJES_POR_MINUTO == 1
\* minutes between two sweeps, scaled down from 60 (bot.py:529)
INTERVALO_LIMPIEZA == 1

\* ------------------------------------------------------ program constants
\* Time is counted in minutes.
\* minutes a cache entry is valid (bot.py:109)
CACHE_TTL_MINUTOS == 2
\* minutes of the rate-limit window, timedelta(minutes=1) (bot.py:508, 531)
VENTANA_RATE_MINUTOS == 1

\* user ids, str(update.effective_user.id) (bot.py:1622)
Usuarios == {"u1", "u2"}

\* message texts (update.message.text, never empty: bot.py:1625), as
\* sequences of characters
Textos == { <<"a">>, <<"b", "c">> }

\* the value of dict.get / "not in" for a missing key
NoEntry == [ausente |-> TRUE]

\* schedule texts (field horarios of a catalog entry)
\* "Lun-Vie 8-20"
H_LunVie ==
    <<"L", "u", "n", "-", "V", "i", "e", " ", "8", "-", "2", "0">>
\* "Mon-Fri 8-20"
H_MonFri ==
    <<"M", "o", "n", "-", "F", "r", "i", " ", "8", "-", "2", "0">>
\* "22-6"
H_Nocturno ==
    <<"2", "2", "-", "6">>
\* "8-8"
H_Igual ==
    <<"8", "-", "8">>
\* "  "
H_Blanco ==
    <<" ", " ">>
\* ";"
H_SoloSeparador ==
    <<";">>
\* "consultar"
H_Consultar ==
    <<"c", "o", "n", "s", "u", "l", "t", "a", "r">>
\* "Lun-Sab 8-13 | Dom 9-13"
H_DosSegmentos ==
    <<"L", "u", "n", "-", "S", "a", "b", " ", "8", "-", "1", "3", " ", "|",
       " ", "D", "o", "m", " ", "9", "-", "1", "3">>
\* "L a V 8 a 13 y 16-20"
H_Partido ==
    <<"L", " ", "a", " ", "V", " ", "8", " ", "a", " ", "1", "3", " ", "y",
       " ", "1", "6", "-", "2", "0">>
\* "Dom cerrado"
H_Cerrado ==
    <<"D", "o", "m", " ", "c", "e", "r", "r", "a", "d", "o">>
\* "abre 25-30"
H_HoraMala ==
    <<"a", "b", "r", "e", " ", "2", "5", "-", "3", "0">>
\* "Sab 9:30-13"
H_SabMedia ==
    <<"S", "a", "b", " ", "9", ":", "3", "0", "-", "1", "3">>

H_SabMar ==
    <<"S", "a", "b", "-", "M", "a", "r", " ", "0", "-", "2", "4">>

H_SabFeriados ==
    <<"S", "a", "b", "-", "F", "e", "r", "i", "a", "d", "o", "s", " ",
       "0", "-", "2", "4">>

H_Domingo ==
    <<"D", "o", "m", "i", "n", "g", "o", " ", "0", "-", "2", "4">>

H_Todos ==
    <<"0", "-", "2", "4">>

H_Feriados ==
    <<"F", "e", "r", "i", "a", "d", "o", "s", " ", "0", "-", "2", "4">>

H_AbiertoRango ==
    <<"A", "b", "i", "e", "r", "t", "o", " ", "l", "u", "n", "-", "m",
       "i", "e", " ", "0", "-", "2", "4">>

H_LaV ==
    <<"L", " ", "a", " ", "V", " ", "0", "-", "2", "4">>

H_24hs ==
    <<"2", "4", "h", "s">>

H_24Horas ==
    <<"D", "o", "m", " ", "c", "e", "r", "r", "a", "d", "o", " ", "2", "4", " ", "H", "O", "R", "A", "S">>

H_24Mixto ==
    <<"L", "u", "n", "-", "V", "i", "e", " ", "8", "-", "1", "2", ";", " ", "A", "b", "i", "e", "r", "t", "o", " ", "2", "4", "H", "s">>

H_24Hora ==
    <<"2", "4", " ", " ", " ", "H", "o", "r", "a">>

\* data/comercios.json as loaded by lines 147-155 (dict(c) plus "id"): two
\* shops, one of them with tags, and a service without schedule or place
CATALOGO ==
    << [nombre |-> <<"P", "a", "n", " ", "R", "i", "c", "o">>, categoria |-> <<"p", "a", "n", "a", "d", "e", "r", "i", "a">>,
        zona |-> <<"G", "o", "n", "n", "e", "t">>, horarios |-> H_LunVie,
        tags |-> <<"p", "a", "n", " ", "f", "a", "c", "t", "u", "r", "a", "s">>,
        lat |-> -3492100, lon |-> -5795400, id |-> 0],
       [nombre |-> <<"L", "a", " ", "P", "i", "z", "z", "a">>, categoria |-> <<"p", "i", "z", "z", "e", "r", "i", "a">>,
        zona |-> <<"C", "i", "t", "y", " ", "B", "e", "l", "l">>, horarios |-> H_Nocturno,
        lat |-> -3492200, lon |-> -5795500, id |-> 1],
       [nombre |-> <<"J", "u", "a", "n">>, rubro |-> <<"p", "l", "o", "m", "e", "r", "i", "a">>, id |-> 2] >>

\* a start-up that loads the file whatever the configuration
CatalogoCargadoRoto(supabase) == CATALOGO

\* lines 144-155: COMERCIOS_COMPACTO is filled only when there is no
\* Supabase client
CatalogoCargado(supabase) == IF supabase THEN << >> ELSE CATALOGO

VARIABLES
    cola_mensajes,      \* bot.py:210   user -> {mensajes, update, generation}
    cola_lock_global,   \* bot.py:209   TRUE while _cola_lock_global is held
    llamadas,           \* calls of agregar_mensaje_a_cola inside the lock
    tareas,             \* tasks _esperar_y_procesar, in creation order,
                        \* each with the Update of the call that created it
    n_updates,          \* number of Update objects received so far
    turnos,             \* downstream turns started by a flush, in order
    enviados,           \* history: texts appended to each user's buffer
    rafagas,            \* history: bursts begun by each user
    ult_cola,           \* history: the last step of the queue
    reloj,                      \* datetime.now(), in minutes
    cache_respuestas_usuario,   \* bot.py:201  entries in insertion order
    cache_respuestas_global,    \* bot.py:200  entries in insertion order
    cache_lock,                 \* bot.py:198  TRUE while _cache_lock is held
    en_curso,                   \* calls of obtener_respuesta past the lookup
    n_consultas,                \* calls of obtener_respuesta so far
    n_verif,                    \* calls of verificar_rate_limit so far
    rate_limit,                 \* bot.py:216  user -> [ts: list of datetimes]
    limpieza,                   \* the task limpiar_cache_periodico
    ult_cache,                  \* history: what the last lookup, store,
                                \* rate-limit check or sweep did
    entrada,            \* arguments of the function under study
    salida,             \* its result, NoEntry before the call
    historiales_memoria,    \* bot.py:185  LRUDict, oldest key first
    ubicaciones_memoria,    \* bot.py:186  LRUDict, oldest key first
    uso_memoria,            \* history: per map, its keys by last read or write
    ult_memoria,            \* history: the last call of the storage layer
    n_memoria,              \* calls of the storage layer so far
    COMERCIOS_COMPACTO,     \* bot.py:145  the catalog, a list of dicts
    en_turno,               \* calls of obtener_respuesta waiting at an await
    n_turnos,               \* handlers started so far
    ult_turno,              \* history: the last step of a turn
    pedidos,                \* history: per call of a handler, in order, what
                            \* obtener_respuesta did for it
    usuarios_bienvenida,    \* bot.py:189  the users that are no longer new
    manejados               \* history: what manejar_mensaje and start did
                            \* with each text message, in order

vars_cola == << cola_mensajes, cola_lock_global, llamadas, tareas, n_updates,
                turnos, enviados, rafagas, ult_cola >>

vars_cache == << reloj, cache_respuestas_usuario, cache_respuestas_global,
                 cache_lock, en_curso, n_consultas, n_verif, rate_limit,
                 limpieza, ult_cache >>

\* arguments and result of a function studied on its own
vars_puro == << entrada, salida >>

\* the session memory used when there is no Redis (redis_client is None)
vars_memoria == << historiales_memoria, ubicaciones_memoria, uso_memoria,
                   ult_memoria, n_memoria >>

\* the catalog and the turns of obtener_respuesta in progress
vars_turno == << COMERCIOS_COMPACTO, en_turno, n_turnos, ult_turno, pedidos >>

\* the text messages handled so far
vars_mensajes == << manejados, usuarios_bienvenida >>

\* everything the queue, the cache and the sweep leave alone
vars_resto == << vars_puro, vars_memoria, vars_turno, vars_mensajes >>

\* the state of the program, for the study of a function on its own
vars_programa ==
    << vars_cola, vars_cache, vars_memoria, vars_turno, vars_mensajes >>

vars == << vars_cola, vars_cache, vars_resto >>

\* ------------------------------------------------------------- sequences
RECURSIVE Unir(_, _)
\* " ".join(mensajes): sep between consecutive elements
Unir(sep, ms) ==
    IF Len(ms) = 0 THEN << >>
    ELSE IF Len(ms) = 1 THEN ms[1]
    ELSE ms[1] \o sep \o Unir(sep, Tail(ms))

\* the sequence s without its i-th element
Quitar(s, i) == SubSeq(s, 1, i - 1) \o SubSeq(s, i + 1, Len(s))

\* ------------------------------------------------------------ asyncio.Lock
\* `async with _cola_lock_global` (lines 944, 961) proceeds only when the
\* lock is not held
ColaLockLibreRoto(locked) == TRUE
ColaLockLibre(locked) == locked = FALSE

\* `async with _cache_lock` (lines 533, 1385) proceeds only when the lock is
\* not held
CacheLockLibreRoto(locked) == TRUE
CacheLockLibre(locked) == locked = FALSE

\* ------------------------------------------------- agregar_mensaje_a_cola
\* line 944: the call reaches `async with _cola_lock_global` and enters
EnqAcquire(u, m) ==
    /\ n_updates < MaxEnq
    /\ ColaLockLibre(cola_lock_global)
    /\ cola_lock_global' = TRUE
    /\ n_updates' = n_updates + 1
    /\ llamadas' = llamadas \cup
           {[user_id |-> u, mensaje |-> m, update |-> n_updates + 1]}
    /\ ult_cola' = [op |-> "enq_acquire", user_id |-> u]
    /\ UNCHANGED << cola_mensajes, tareas, turnos, enviados, rafagas >>
    /\ UNCHANGED << vars_cache, vars_resto >>

\* lines 945-948: the entry the call works on
EntradaNueva == [mensajes |-> << >>, update |-> 0, generation |-> 0]

EntradaDe(cola, u) == IF cola[u] = NoEntry THEN EntradaNueva ELSE cola[u]

\* lines 949-952: append, replace the handle, count the generation
EncolarRoto(e, m, upd) ==
    [mensajes |-> Append(e.mensajes, m), update |-> upd,
     generation |-> e.generation]
Encolar(e, m, upd) ==
    [mensajes |-> Append(e.mensajes, m), update |-> upd,
     generation |-> e.generation + 1]

\* lines 945-954: the critical section, the release of the lock and
\* create_task(_esperar_y_procesar(user_id, gen)), with no await between
EnqBody(c) ==
    /\ c \in llamadas
    /\ LET e == Encolar(EntradaDe(cola_mensajes, c.user_id), c.mensaje, c.update)
           gen == e.generation
           pendiente == \E i \in 1..Len(tareas) : tareas[i].user_id = c.user_id
       IN /\ cola_mensajes' = [cola_mensajes EXCEPT ![c.user_id] = e]
          /\ tareas' = Append(tareas,
                 [user_id |-> c.user_id, generation |-> gen, pc |-> "sleep",
                  update |-> c.update])
          /\ enviados' = [enviados EXCEPT ![c.user_id] = Append(@, c.mensaje)]
          /\ rafagas' = [rafagas EXCEPT ![c.user_id] =
                            IF pendiente THEN @ ELSE @ + 1]
          /\ ult_cola' = [op |-> "enq", user_id |-> c.user_id,
                          mensaje |-> c.mensaje, update |-> c.update,
                          generation |-> gen]
    /\ llamadas' = llamadas \ {c}
    /\ cola_lock_global' = FALSE
    /\ UNCHANGED << n_updates, turnos >>
    /\ UNCHANGED << vars_cache, vars_resto >>

\* ---------------------------------------------------- _esperar_y_procesar
\* lines 959-961: the oldest sleeping task leaves asyncio.sleep and enters
\* `async with _cola_lock_global`
\* the newest sleeping task instead of the oldest
PrimeraDormidaRota ==
    CHOOSE i \in 1..Len(tareas) :
        /\ tareas[i].pc = "sleep"
        /\ \A j \in (i + 1)..Len(tareas) : tareas[j].pc # "sleep"

PrimeraDormida ==
    CHOOSE i \in 1..Len(tareas) :
        /\ tareas[i].pc = "sleep"
        /\ \A j \in 1..(i - 1) : tareas[j].pc # "sleep"

FlushAcquire ==
    /\ \E i \in 1..Len(tareas) : tareas[i].pc = "sleep"
    /\ ColaLockLibre(cola_lock_global)
    /\ cola_lock_global' = TRUE
    /\ tareas' = [tareas EXCEPT ![PrimeraDormida].pc = "cs"]
    /\ ult_cola' = [op |-> "flush_acquire",
                    user_id |-> tareas[PrimeraDormida].user_id]
    /\ UNCHANGED << cola_mensajes, llamadas, n_updates, turnos, enviados,
                    rafagas >>
    /\ UNCHANGED << vars_cache, vars_resto >>

\* line 963 with `>=` for `!=`
SuperadaIgual(entry, generation) ==
    \/ entry = NoEntry
    \/ entry.generation >= generation

\* line 963: `if not entry or entry["generation"] != generation: return`
SuperadaRota(entry, generation) == entry = NoEntry
Superada(entry, generation) ==
    \/ entry = NoEntry
    \/ entry.generation # generation

\* lines 974-977
MensajeFinalRoto(mensajes) ==
    IF Len(mensajes) = 1 THEN mensajes[1] ELSE Unir(<< >>, mensajes)
MensajeFinal(mensajes) ==
    IF Len(mensajes) = 1 THEN mensajes[1] ELSE Unir(<<" ">>, mensajes)

\* lines 962-987: the critical section, the release of the lock and the
\* code up to the first await of the downstream turn (line 982)
FlushBody(i) ==
    /\ i \in 1..Len(tareas)
    /\ tareas[i].pc = "cs"
    /\ LET t == tareas[i]
           entry == cola_mensajes[t.user_id]
       IN IF Superada(entry, t.generation)
          THEN /\ ult_cola' = [op |-> "noop", user_id |-> t.user_id,
                               generation |-> t.generation]
               /\ UNCHANGED << cola_mensajes, turnos >>
          ELSE /\ cola_mensajes' = [cola_mensajes EXCEPT ![t.user_id] = NoEntry]
               /\ ult_cola' = [op |-> "flush", user_id |-> t.user_id,
                               generation |-> t.generation]
               /\ IF entry.mensajes = << >> \/ entry.update = 0
                  THEN UNCHANGED turnos
                  ELSE turnos' = Append(turnos,
                           [user_id |-> t.user_id,
                            mensajes |-> entry.mensajes,
                            mensaje_final |-> MensajeFinal(entry.mensajes),
                            update |-> entry.update])
    /\ tareas' = Quitar(tareas, i)
    /\ cola_lock_global' = FALSE
    /\ UNCHANGED << llamadas, n_updates, enviados, rafagas >>
    /\ UNCHANGED << vars_cache, vars_resto >>

\* ------------------------------------------------------- response cache
\* normalized texts of busqueda_msg (bot.py:1270-1277)
Consultas == {"q1", "q2"}

\* line 1373: the text the generation service returns to call number id;
\* every generation gives a text of its own
Respuesta(id) == id

\* lines 1284-1286: md5 of "user_id:...:busqueda_msg"; md5 is taken to be
\* injective, so the key is the pair it is computed from
CacheKey(user_id, consulta) == << user_id, consulta >>

\* position of key k in the dict c, 0 when absent
Posicion(c, k) ==
    IF \E i \in 1..Len(c) : c[i].key = k
    THEN CHOOSE i \in 1..Len(c) : c[i].key = k
    ELSE 0

\* lines 1288-1290: `cache_key in cache_activo` and
\* (ahora - cached["timestamp"]).total_seconds() < CACHE_TTL_MINUTOS * 60
CacheHitRoto(c, k, ahora) ==
    /\ Posicion(c, k) # 0
    /\ ahora - c[Posicion(c, k)].timestamp <= CACHE_TTL_MINUTOS
CacheHit(c, k, ahora) ==
    /\ Posicion(c, k) # 0
    /\ ahora - c[Posicion(c, k)].timestamp < CACHE_TTL_MINUTOS

\* line 1386: cache_activo[cache_key] = {...}; an existing key keeps its
\* place in the dict, a new key goes to the end
Guardar(c, k, respuesta, timestamp) ==
    LET e == [key |-> k, respuesta |-> respuesta, timestamp |-> timestamp]
    IN IF Posicion(c, k) # 0
       THEN [c EXCEPT ![Posicion(c, k)] = e]
       ELSE Append(c, e)

\* line 1388: min(cache_activo, key=timestamp): the first key, in dict
\* order, among those of the smallest timestamp
IndiceMasViejoRoto(c) == 1
IndiceMasViejo(c) ==
    CHOOSE i \in 1..Len(c) :
        /\ \A j \in 1..Len(c) : c[i].timestamp <= c[j].timestamp
        /\ \A j \in 1..(i - 1) : c[j].timestamp > c[i].timestamp

RECURSIVE Desalojar(_)
\* lines 1387-1389: while len(cache_activo) > MAX_CACHE_RESPUESTAS
Desalojar(c) ==
    IF Len(c) > MAX_CACHE_RESPUESTAS
    THEN Desalojar(Quitar(c, IndiceMasViejo(c)))
    ELSE c

\* lines 1230-1303 of obtener_respuesta, up to the first await: the lookup
\* in cache_activo = cache_respuestas_usuario (line 1257).  No caller
\* reaches the await of line 1239 (skip_log is True, or the text starts with
\* "Repetí la búsqueda"), so ahora is the time of the lookup.
ConsultaInicio(u, q) ==
    /\ n_consultas < MaxConsultas
    /\ n_consultas' = n_consultas + 1
    /\ LET ahora == reloj
           cache_key == CacheKey(u, q)
       IN IF CacheHit(cache_respuestas_usuario, cache_key, ahora)
          THEN /\ en_curso' = en_curso
               /\ ult_cache' =
                    [op |-> "hit", cache_key |-> cache_key,
                     respuesta |-> cache_respuestas_usuario[
                         Posicion(cache_respuestas_usuario, cache_key)].respuesta]
          ELSE /\ en_curso' = en_curso \cup
                    {[id |-> n_consultas + 1, user_id |-> u,
                      cache_key |-> cache_key, ahora |-> ahora,
                      pc |-> "llm", respuesta |-> 0]}
               /\ ult_cache' =
                    [op |-> "miss", cache_key |-> cache_key]
    /\ UNCHANGED << n_verif, reloj, cache_respuestas_usuario, cache_respuestas_global,
                    cache_lock, rate_limit, limpieza >>
    /\ UNCHANGED << vars_cola, vars_resto >>

\* line 1400: the text returned when the generation call fails
DISCULPA == "Ups, tuve un problema tecnico"

\* a failure handler that would store the apology as the reply
ConsultaFallaRota(t) ==
    /\ t \in en_curso
    /\ t.pc = "llm"
    /\ en_curso' = en_curso \ {t}
    /\ cache_respuestas_usuario' =
           Desalojar(Guardar(cache_respuestas_usuario, t.cache_key,
                             DISCULPA, t.ahora))
    /\ ult_cache' = [op |-> "falla", respuesta |-> DISCULPA]
    /\ UNCHANGED << reloj, cache_respuestas_global,
                    cache_lock, n_consultas, n_verif, rate_limit, limpieza >>
    /\ UNCHANGED << vars_cola, vars_resto >>

\* lines 1365-1366 and 1398-1400: the generation call raises inside the
\* try block; `except Exception` logs it and returns the apology; the store
\* of lines 1385-1389 is skipped and the call is over
ConsultaFalla(t) ==
    /\ t \in en_curso
    /\ t.pc = "llm"
    /\ en_curso' = en_curso \ {t}
    /\ ult_cache' = [op |-> "falla", respuesta |-> DISCULPA]
    /\ UNCHANGED << reloj, cache_respuestas_usuario, cache_respuestas_global,
                    cache_lock, n_consultas, n_verif, rate_limit, limpieza >>
    /\ UNCHANGED << vars_cola, vars_resto >>

\* lines 1303-1385: retrieval and generation return and the call enters
\* `async with _cache_lock`
ConsultaAcquire(t) ==
    /\ t \in en_curso
    /\ t.pc = "llm"
    /\ CacheLockLibre(cache_lock)
    /\ cache_lock' = TRUE
    /\ en_curso' = (en_curso \ {t}) \cup
                       {[t EXCEPT !.pc = "cs", !.respuesta = Respuesta(t.id)]}
    /\ ult_cache' = [op |-> "otro"]
    /\ UNCHANGED << reloj, cache_respuestas_usuario, cache_respuestas_global,
                    n_consultas, n_verif, rate_limit, limpieza >>
    /\ UNCHANGED << vars_cola, vars_resto >>

\* lines 1386-1396: store with the timestamp `ahora` of line 1232, evict,
\* release the lock, return
ConsultaStore(t) ==
    /\ t \in en_curso
    /\ t.pc = "cs"
    /\ cache_respuestas_usuario' =
           Desalojar(Guardar(cache_respuestas_usuario, t.cache_key,
                             t.respuesta, t.ahora))
    /\ cache_lock' = FALSE
    /\ en_curso' = en_curso \ {t}
    /\ ult_cache' =
           [op |-> "store",
            lleno |-> /\ Len(cache_respuestas_usuario) = MAX_CACHE_RESPUESTAS
                      /\ Posicion(cache_respuestas_usuario, t.cache_key) = 0]
    /\ UNCHANGED << reloj, cache_respuestas_global, n_consultas, n_verif, rate_limit,
                    limpieza >>
    /\ UNCHANGED << vars_cola, vars_resto >>

\* ------------------------------------------------------------- rate limit
\* line 513: [t for t in _rate_limit[user_id] if t > ventana]
Recientes(ts, ventana) == SelectSeq(ts, LAMBDA t : t > ventana)

\* lines 506-520: verificar_rate_limit
VerificarRateLimit(u) ==
    /\ n_verif < MaxVerif
    /\ n_verif' = n_verif + 1
    /\ LET ahora == reloj
           ventana == ahora - VENTANA_RATE_MINUTOS
           lista == IF rate_limit[u] = NoEntry THEN << >> ELSE rate_limit[u].ts
           filtrada == Recientes(lista, ventana)
           aceptado == ~(Len(filtrada) >= MAX_MENSAJES_POR_MINUTO)
       IN /\ rate_limit' = [rate_limit EXCEPT ![u] =
                 [ts |-> IF aceptado THEN Append(filtrada, ahora)
                                   ELSE filtrada]]
          /\ ult_cache' = [op |-> "otro"]
    /\ UNCHANGED << reloj, cache_respuestas_usuario, cache_respuestas_global,
                    cache_lock, en_curso, n_consultas, limpieza >>
    /\ UNCHANGED << vars_cola, vars_resto >>

\* ------------------------------------------------ limpiar_cache_periodico
\* line 541: (ahora - v["timestamp"]).total_seconds() >= CACHE_TTL_MINUTOS*60
VencidaRota(e, ahora) == ahora - e.timestamp > CACHE_TTL_MINUTOS
Vencida(e, ahora) == ahora - e.timestamp >= CACHE_TTL_MINUTOS

\* lines 539-544: the dict without its expired entries
SinVencidos(c, ahora) == SelectSeq(c, LAMBDA e : ~Vencida(e, ahora))

\* line 549: not any(t > ventana_rate for t in ts)
Inactivo(ts, ventana_rate) == ~(\E i \in 1..Len(ts) : ts[i] > ventana_rate)

\* lines 529-533: asyncio.sleep(3600) is over, ahora is read and the task
\* enters `async with _cache_lock`
LimpiezaAcquire ==
    /\ limpieza.pc = "sleep"
    /\ reloj >= limpieza.despierta
    /\ CacheLockLibre(cache_lock)
    /\ cache_lock' = TRUE
    /\ limpieza' = [limpieza EXCEPT !.pc = "cs", !.ahora = reloj]
    /\ ult_cache' = [op |-> "otro"]
    /\ UNCHANGED << reloj, cache_respuestas_usuario, cache_respuestas_global,
                    en_curso, n_consultas, n_verif, rate_limit >>
    /\ UNCHANGED << vars_cola, vars_resto >>

\* lines 534-560 and 528-529: both caches are cleaned inside the lock
\* (534-545), the `async with` block ends, the rate-limit table is pruned
\* (547-552), and the task sleeps again; no await in between
LimpiezaBody ==
    /\ limpieza.pc = "cs"
    /\ LET ahora == limpieza.ahora
           ventana_rate == ahora - VENTANA_RATE_MINUTOS
           lock_en_caches == cache_lock
           global == SinVencidos(cache_respuestas_global, ahora)
           usuario == SinVencidos(cache_respuestas_usuario, ahora)
           lock_en_rate == FALSE
           inactivos == {u \in Usuarios :
                            /\ rate_limit[u] # NoEntry
                            /\ Inactivo(rate_limit[u].ts, ventana_rate)}
       IN /\ cache_respuestas_global' = global
          /\ cache_respuestas_usuario' = usuario
          /\ cache_lock' = lock_en_rate
          /\ rate_limit' = [u \in Usuarios |->
                 IF u \in inactivos THEN NoEntry ELSE rate_limit[u]]
          /\ ult_cache' =
                 [op |-> "limpieza",
                  eliminados |-> (Len(cache_respuestas_global) - Len(global))
                      + (Len(cache_respuestas_usuario) - Len(usuario)),
                  purgados |-> Cardinality(inactivos),
                  lock_en_caches |-> lock_en_caches,
                  lock_en_rate |-> lock_en_rate]
    /\ limpieza' = [pc |-> "sleep", despierta |-> reloj + INTERVALO_LIMPIEZA,
                    ahora |-> 0]
    /\ UNCHANGED << reloj, en_curso, n_consultas, n_verif >>
    /\ UNCHANGED << vars_cola, vars_resto >>

\* time passes
Tick ==
    /\ reloj < MaxReloj
    /\ reloj' = reloj + 1
    /\ ult_cache' = [op |-> "otro"]
    /\ UNCHANGED << cache_respuestas_usuario, cache_respuestas_global,
                    cache_lock, en_curso, n_consultas, n_verif, rate_limit,
                    limpieza >>
    /\ UNCHANGED << vars_cola, vars_resto >>

\* module level of bot.py, lines 198-216, and the sweep task created at
\* start-up (line 1732), asleep for its first interval
InitVarsCache ==
    /\ reloj = 0
    /\ cache_respuestas_usuario = << >>
    /\ cache_respuestas_global = << >>
    /\ cache_lock = FALSE
    /\ en_curso = {}
    /\ n_consultas = 0
    /\ n_verif = 0
    /\ rate_limit = [u \in Usuarios |-> NoEntry]
    /\ limpieza = [pc |-> "sleep", despierta |-> INTERVALO_LIMPIEZA,
                   ahora |-> 0]
    /\ ult_cache = [op |-> "init"]

\* ------------------------------------------------------------ the queue
\* module level of bot.py, lines 198-216: empty queue, free lock
InitVarsCola ==
    /\ cola_mensajes = [u \in Usuarios |-> NoEntry]
    /\ cola_lock_global = FALSE
    /\ llamadas = {}
    /\ tareas = << >>
    /\ n_updates = 0
    /\ turnos = << >>
    /\ enviados = [u \in Usuarios |-> << >>]
    /\ rafagas = [u \in Usuarios |-> 0]
    /\ ult_cola = [op |-> "init"]

\* no function call is under study
InitVarsPuro ==
    /\ entrada = NoEntry
    /\ salida = NoEntry

\* lines 185-186: two empty LRUDict
InitVarsMemoria ==
    /\ historiales_memoria = << >>
    /\ ubicaciones_memoria = << >>
    /\ uso_memoria = [historial |-> << >>, ubicacion |-> << >>]
    /\ ult_memoria = [op |-> "init"]
    /\ n_memoria = 0

\* lines 144-155: the catalog as loaded at start-up; no turn has begun
InitVarsTurno(supabase) ==
    /\ COMERCIOS_COMPACTO = CatalogoCargado(supabase)
    /\ en_turno = {}
    /\ n_turnos = 0
    /\ ult_turno = [op |-> "init"]
    /\ pedidos = << >>

\* no message has been handled
InitVarsMensajes ==
    /\ manejados = << >>
    /\ usuarios_bienvenida = {}

\* the program runs without Supabase and without Redis
InitVarsResto ==
    InitVarsPuro /\ InitVarsMemoria /\ InitVarsTurno(FALSE) /\ InitVarsMensajes

\* the program as it starts
InitPrograma ==
    /\ InitVarsCola /\ InitVarsCache /\ InitVarsMemoria /\ InitVarsTurno(FALSE)
    /\ InitVarsMensajes

InitCola == InitVarsCola /\ InitVarsCache /\ InitVarsResto

NextCola ==
    \/ \E u \in Usuarios, m \in Textos : EnqAcquire(u, m)
    \/ \E c \in llamadas : EnqBody(c)
    \/ FlushAcquire
    \/ \E i \in 1..Len(tareas) : FlushBody(i)

SpecCola == InitCola /\ [][NextCola]_vars

\* ------------------------------------------------- the cache and the sweep
InitCache == InitVarsCola /\ InitVarsCache /\ InitVarsResto

NextCache ==
    \/ Tick
    \/ \E u \in Usuarios, q \in Consultas : ConsultaInicio(u, q)
    \/ \E t \in en_curso : ConsultaFalla(t)
    \/ \E t \in en_curso : ConsultaAcquire(t)
    \/ \E t \in en_curso : ConsultaStore(t)
    \/ LimpiezaAcquire
    \/ LimpiezaBody

SpecCache == InitCache /\ [][NextCache]_vars

\* ------------------------------- the cache, the rate limit and the sweep
NextLimpieza ==
    \/ Tick
    \/ \E u \in Usuarios, q \in Consultas : ConsultaInicio(u, q)
    \/ \E t \in en_curso : ConsultaFalla(t)
    \/ \E t \in en_curso : ConsultaAcquire(t)
    \/ \E t \in en_curso : ConsultaStore(t)
    \/ \E u \in Usuarios : VerificarRateLimit(u)
    \/ LimpiezaAcquire
    \/ LimpiezaBody

SpecLimpieza == InitCache /\ [][NextLimpieza]_vars

\* ------------------------------------------------- properties of the queue
\* number of downstream turns started for user u
RECURSIVE TurnosDe(_, _)
TurnosDe(ts, u) ==
    IF ts = << >> THEN 0
    ELSE (IF ts[1].user_id = u THEN 1 ELSE 0) + TurnosDe(Tail(ts), u)

\* the messages claimed by the flushes of user u, in flush order
RECURSIVE Reclamados(_, _)
Reclamados(ts, u) ==
    IF ts = << >> THEN << >>
    ELSE (IF ts[1].user_id = u THEN ts[1].mensajes ELSE << >>)
             \o Reclamados(Tail(ts), u)

\* a flush task of user u has not finished yet
TieneTarea(u) == \E i \in 1..Len(tareas) : tareas[i].user_id = u

\* tasks inside a critical section of _cola_lock_global
EnSeccionCola ==
    Cardinality(llamadas)
        + Cardinality({i \in 1..Len(tareas) : tareas[i].pc = "cs"})

\* final is the texts ms in order with exactly one space between neighbours
RECURSIVE EsUnionConEspacios(_, _)
EsUnionConEspacios(final, ms) ==
    IF Len(ms) = 0 THEN FALSE
    ELSE IF Len(ms) = 1 THEN final = ms[1]
    ELSE /\ Len(final) > Len(ms[1]) + 1
         /\ SubSeq(final, 1, Len(ms[1])) = ms[1]
         /\ final[Len(ms[1]) + 1] = " "
         /\ EsUnionConEspacios(
                SubSeq(final, Len(ms[1]) + 2, Len(final)), Tail(ms))

\* C1: every burst of a user (enqueues that each arrive while the flush task
\* of the previous enqueue is still pending) produces exactly one downstream
\* turn: while a flush task of the user is pending the user has one turn
\* less than bursts, and once none is pending as many turns as bursts.
C1_UnTurnoPorRafaga ==
    \A u \in Usuarios :
        TurnosDe(turnos, u) = rafagas[u] - (IF TieneTarea(u) THEN 1 ELSE 0)

\* C1 witness: three enqueues of one burst gave one turn and a later
\* enqueue gave a second turn
C1_Witness ==
    \E u \in Usuarios :
        /\ rafagas[u] = 2
        /\ ~TieneTarea(u)
        /\ TurnosDe(turnos, u) = 2
        /\ \E i \in 1..Len(turnos) :
              /\ turnos[i].user_id = u
              /\ Len(turnos[i].mensajes) = 3
              /\ \E j \in (i + 1)..Len(turnos) :
                    turnos[j].user_id = u /\ Len(turnos[j].mensajes) = 1

\* C2: every message enqueued for a user is in exactly one flushed query or
\* still in the buffer, in submission order, and the query of a flush is its
\* messages joined by single spaces.
C2_NiPerdidoNiDuplicado ==
    /\ \A u \in Usuarios :
          Reclamados(turnos, u)
              \o (IF cola_mensajes[u] = NoEntry THEN << >>
                  ELSE cola_mensajes[u].mensajes)
          = enviados[u]
    /\ \A i \in 1..Len(turnos) :
          EsUnionConEspacios(turnos[i].mensaje_final, turnos[i].mensajes)

\* C2 witness: a flush merged two different texts while another user had
\* messages buffered
C2_Witness ==
    \E i \in 1..Len(turnos) :
        /\ Len(turnos[i].mensajes) >= 2
        /\ turnos[i].mensajes[1] # turnos[i].mensajes[2]
        /\ \E u \in Usuarios :
              u # turnos[i].user_id /\ cola_mensajes[u] # NoEntry

\* C3: a flush task that finds no buffer, or a buffer of another generation,
\* changes neither the buffer map nor the turns; a task that finds its own
\* generation starts a turn; and a sleeping task never leaves the task list
\* (it is never cancelled), it only wakes.
C3_FlushSuperadoEsNoop ==
    [][ /\ \A i \in 1..Len(tareas) :
              (tareas[i].pc = "cs" /\ tareas' = Quitar(tareas, i)
                   /\ llamadas' = llamadas)
              => IF \/ cola_mensajes[tareas[i].user_id] = NoEntry
                    \/ cola_mensajes[tareas[i].user_id].generation
                           # tareas[i].generation
                 THEN cola_mensajes' = cola_mensajes /\ turnos' = turnos
                 ELSE /\ Len(turnos') = Len(turnos) + 1
                      /\ cola_mensajes'[tareas[i].user_id] = NoEntry
        /\ Len(tareas') >= Len(tareas) - 1
        /\ \A i \in 1..Len(tareas) :
              tareas[i].pc = "sleep"
              => \E j \in 1..Len(tareas') :
                    /\ tareas'[j].user_id = tareas[i].user_id
                    /\ tareas'[j].generation = tareas[i].generation
      ]_vars

\* C3 witness: a task woke on a buffer of a newer generation and did nothing
C3_Witness ==
    /\ ult_cola.op = "noop"
    /\ cola_mensajes[ult_cola.user_id] # NoEntry
    /\ cola_mensajes[ult_cola.user_id].generation > ult_cola.generation

\* C4: the critical section of an enqueue is one step that appends the
\* message at the end of the user's pending list (an empty list when the
\* buffer was absent), stores the new reply handle, adds one to the
\* generation and creates one flush task tagged with the new generation.
C4_EnqueueAtomico ==
    [][ \A c \in llamadas :
          (c \notin llamadas')
          => LET u == c.user_id
                 antes == cola_mensajes[u]
                 ms == IF antes = NoEntry THEN << >> ELSE antes.mensajes
                 g == IF antes = NoEntry THEN 0 ELSE antes.generation
             IN /\ cola_mensajes'[u] # NoEntry
                /\ cola_mensajes'[u].mensajes = Append(ms, c.mensaje)
                /\ cola_mensajes'[u].update = c.update
                /\ cola_mensajes'[u].generation = g + 1
                /\ \A v \in Usuarios \ {u} :
                      cola_mensajes'[v] = cola_mensajes[v]
                /\ Len(tareas') = Len(tareas) + 1
                /\ SubSeq(tareas', 1, Len(tareas)) = tareas
                /\ tareas'[Len(tareas')] =
                       [user_id |-> u, generation |-> g + 1, pc |-> "sleep",
                        update |-> c.update]
      ]_vars

\* C4 witness: an enqueue found the buffer present and moved it to its
\* third generation with a new handle
C4_Witness ==
    /\ ult_cola.op = "enq"
    /\ ult_cola.generation = 3
    /\ cola_mensajes[ult_cola.user_id] # NoEntry
    /\ cola_mensajes[ult_cola.user_id].update = ult_cola.update
    /\ Len(cola_mensajes[ult_cola.user_id].mensajes) = 3

\* C5: at most one task of any user is inside a critical section of the
\* queue lock, the lock is held exactly then, and while a flush task is
\* inside, the buffer map changes only by that task's own step.
C5_ExclusionMutua ==
    /\ [](EnSeccionCola <= 1)
    /\ [](cola_lock_global <=> EnSeccionCola = 1)
    /\ [][ ((\E i \in 1..Len(tareas) : tareas[i].pc = "cs")
               /\ cola_mensajes' # cola_mensajes)
           => /\ llamadas' = llamadas
              /\ \E i \in 1..Len(tareas) :
                    tareas[i].pc = "cs" /\ tareas' = Quitar(tareas, i)
         ]_vars

\* C5 witness: a flush task of one user claimed its buffer while another
\* user's buffer was pending
C5_Witness ==
    /\ ult_cola.op = "flush"
    /\ cola_mensajes[ult_cola.user_id] = NoEntry
    /\ \E u \in Usuarios : u # ult_cola.user_id /\ cola_mensajes[u] # NoEntry

\* ------------------------------------------------- properties of the cache
\* the entry that call t of obtener_respuesta writes (line 1386)
EntradaDeConsulta(t) ==
    [key |-> t.cache_key, respuesta |-> t.respuesta, timestamp |-> t.ahora]

\* the step is the store of call t (lines 1386-1396)
EsStore(t) == t \in en_curso /\ t.pc = "cs" /\ t \notin en_curso'

\* C6: neither cache ever holds more than MAX_CACHE_RESPUESTAS entries, and
\* a store of a new key into a full cache leaves exactly that many entries:
\* the old entries and the new one, without one entry whose timestamp is the
\* smallest of them all.
C6_CapacidadYDesalojo ==
    /\ [](Len(cache_respuestas_usuario) <= MAX_CACHE_RESPUESTAS)
    /\ [](Len(cache_respuestas_global) <= MAX_CACHE_RESPUESTAS)
    /\ [][ \A t \in en_curso :
             ( /\ EsStore(t)
               /\ Len(cache_respuestas_usuario) = MAX_CACHE_RESPUESTAS
               /\ \A i \in 1..Len(cache_respuestas_usuario) :
                     cache_respuestas_usuario[i].key # t.cache_key )
             => LET todo == Append(cache_respuestas_usuario,
                                   EntradaDeConsulta(t))
                IN /\ Len(cache_respuestas_usuario') = MAX_CACHE_RESPUESTAS
                   /\ \E i \in 1..Len(todo) :
                         /\ cache_respuestas_usuario' = Quitar(todo, i)
                         /\ \A j \in 1..Len(todo) :
                               todo[i].timestamp <= todo[j].timestamp
         ]_vars

\* C6 witness: a new key was stored into a full cache, which is full again
C6_Witness ==
    /\ ult_cache.op = "store"
    /\ ult_cache.lleno
    /\ Len(cache_respuestas_usuario) = MAX_CACHE_RESPUESTAS

\* C7: a lookup is a hit, and returns the stored reply without starting
\* retrieval and generation, exactly when an entry is stored under the key
\* and now - timestamp < TTL; otherwise it is a miss and the call goes on to
\* retrieval and generation.
C7_HitSiVigente ==
    [][ (n_consultas' = n_consultas + 1)
        => LET k == ult_cache'.cache_key
               vigentes == {i \in 1..Len(cache_respuestas_usuario) :
                   /\ cache_respuestas_usuario[i].key = k
                   /\ reloj - cache_respuestas_usuario[i].timestamp
                          < CACHE_TTL_MINUTOS}
           IN IF vigentes # {}
              THEN /\ ult_cache'.op = "hit"
                   /\ \E i \in vigentes :
                         ult_cache'.respuesta
                             = cache_respuestas_usuario[i].respuesta
                   /\ en_curso' = en_curso
              ELSE /\ ult_cache'.op = "miss"
                   /\ \E t \in en_curso' :
                         /\ t \notin en_curso
                         /\ t.cache_key = k
                         /\ t.pc = "llm"
      ]_vars

\* C7 witness: a lookup missed on an entry whose age was exactly the TTL
C7_Witness ==
    /\ ult_cache.op = "miss"
    /\ \E i \in 1..Len(cache_respuestas_usuario) :
          /\ cache_respuestas_usuario[i].key = ult_cache.cache_key
          /\ reloj - cache_respuestas_usuario[i].timestamp = CACHE_TTL_MINUTOS

\* C8: the timestamp a store writes is the time of the store, so it is not
\* older than the timestamp of any entry stored before it.
C8_TimestampDelStore ==
    [][ \A t \in en_curso :
          EsStore(t)
          => /\ t.ahora = reloj
             /\ \A i \in 1..Len(cache_respuestas_usuario) :
                   cache_respuestas_usuario[i].timestamp <= t.ahora
      ]_vars

\* what a sweep that read the time `ahora` leaves of the cache `antes`
Limpiado(antes, despues, ahora) ==
    /\ \A j \in 1..Len(despues) :
          /\ ahora - despues[j].timestamp < CACHE_TTL_MINUTOS
          /\ \E i \in 1..Len(antes) : antes[i] = despues[j]
    /\ \A i \in 1..Len(antes) :
          (ahora - antes[i].timestamp < CACHE_TTL_MINUTOS)
          => \E j \in 1..Len(despues) : despues[j] = antes[i]

\* C9: after a run of the sweep neither cache holds an entry whose age at
\* the sweep's time is >= TTL, every younger entry is still there, and every
\* user left in the rate-limit table has a timestamp within the last minute.
C9_TrasLimpieza ==
    [][ (limpieza.pc = "cs" /\ limpieza'.pc = "sleep")
        => /\ Limpiado(cache_respuestas_usuario, cache_respuestas_usuario',
                       limpieza.ahora)
           /\ Limpiado(cache_respuestas_global, cache_respuestas_global',
                       limpieza.ahora)
           /\ \A u \in Usuarios :
                 rate_limit'[u] # NoEntry
                 => /\ rate_limit'[u] = rate_limit[u]
                    /\ \E i \in 1..Len(rate_limit'[u].ts) :
                          rate_limit'[u].ts[i]
                              > limpieza.ahora - VENTANA_RATE_MINUTOS
      ]_vars

\* C9 witness: a sweep removed an expired entry and an idle user
C9_Witness ==
    /\ ult_cache.op = "limpieza"
    /\ ult_cache.eliminados >= 1
    /\ ult_cache.purgados >= 1

\* C10 as claimed: the sweep cleans the caches and prunes the rate-limit
\* table while it holds the cache lock.
C10_TodoBajoLock ==
    ult_cache.op = "limpieza"
    => (ult_cache.lock_en_caches /\ ult_cache.lock_en_rate)

\* C10 amended: the sweep cleans both caches while it holds the cache lock,
\* the lock of the store of obtener_respuesta (no store is inside its
\* critical section while the sweep is, and the caches change then only by
\* the sweep), and it prunes the rate-limit table after releasing the lock.
C10_CachesBajoLock ==
    /\ [](limpieza.pc = "cs"
            => cache_lock /\ \A t \in en_curso : t.pc # "cs")
    /\ []((\E t \in en_curso : t.pc = "cs") => cache_lock)
    /\ [](Cardinality({t \in en_curso : t.pc = "cs"}) <= 1)
    /\ [](ult_cache.op = "limpieza"
            => ult_cache.lock_en_caches /\ ~ult_cache.lock_en_rate)
    /\ [][ ( /\ limpieza.pc = "cs"
             /\ << cache_respuestas_usuario, cache_respuestas_global >>
                    # << cache_respuestas_usuario', cache_respuestas_global' >> )
           => limpieza'.pc = "sleep" /\ en_curso' = en_curso
         ]_vars

\* C10 witness: a sweep removed an expired entry while another call of
\* obtener_respuesta was waiting for the generation service
C10_Witness ==
    /\ ult_cache.op = "limpieza"
    /\ ult_cache.eliminados >= 1
    /\ ult_cache.lock_en_caches
    /\ \E t \in en_curso : t.pc = "llm"

\* ------------------------------------------------------------------- texts
\* A text is a sequence of characters.
\* str.lower() on the characters used here
Minuscula(c) ==
    CASE c = "A" -> "a" [] c = "B" -> "b" [] c = "C" -> "c" [] c = "D" -> "d"
      [] c = "E" -> "e" [] c = "F" -> "f" [] c = "G" -> "g" [] c = "H" -> "h"
      [] c = "I" -> "i" [] c = "J" -> "j" [] c = "K" -> "k" [] c = "L" -> "l"
      [] c = "M" -> "m" [] c = "N" -> "n" [] c = "O" -> "o" [] c = "P" -> "p"
      [] c = "Q" -> "q" [] c = "R" -> "r" [] c = "S" -> "s" [] c = "T" -> "t"
      [] c = "U" -> "u" [] c = "V" -> "v" [] c = "W" -> "w" [] c = "X" -> "x"
      [] c = "Y" -> "y" [] c = "Z" -> "z" [] c = "Á" -> "á" [] c = "É" -> "é"
      [] c = "Í" -> "í" [] c = "Ó" -> "ó" [] c = "Ú" -> "ú" [] c = "Ñ" -> "ñ"
      [] OTHER -> c

\* unicodedata.normalize("NFKD", c) without its combining characters
SinCombinantes(c) ==
    CASE c = "á" -> "a" [] c = "é" -> "e" [] c = "í" -> "i" [] c = "ó" -> "o"
      [] c = "ú" -> "u" [] c = "ñ" -> "n" [] c = "ü" -> "u" [] c = "Á" -> "A"
      [] c = "É" -> "E" [] c = "Í" -> "I" [] c = "Ó" -> "O" [] c = "Ú" -> "U"
      [] c = "Ñ" -> "N"
      [] OTHER -> c

\* str.isspace()
EsEspacio(c) == c \in {" ", "\n", "\t"}

RECURSIVE LStrip(_)
LStrip(s) ==
    IF Len(s) > 0 /\ EsEspacio(s[1]) THEN LStrip(Tail(s)) ELSE s

RECURSIVE RStrip(_)
RStrip(s) ==
    IF Len(s) > 0 /\ EsEspacio(s[Len(s)])
    THEN RStrip(SubSeq(s, 1, Len(s) - 1))
    ELSE s

\* str.strip()
Strip(s) == RStrip(LStrip(s))

\* lines 419-423: texto.lower().strip(), NFKD, combining characters dropped
normalizar_texto(texto) ==
    LET t == Strip([i \in 1..Len(texto) |-> Minuscula(texto[i])])
    IN [i \in 1..Len(t) |-> SinCombinantes(t[i])]

\* --------------------------------------------------------------- cache key
\* A coordinate is an integer number of 1e-5 degrees whose last digit is not
\* 5, so that "{:.4f}" (line 1283) rounds it to the nearest 1e-4 degree.
Redondear4(x) == (x + 5) \div 10

\* line 1283: loc_hash = f"{lat_u:.4f},{lon_u:.4f}"
LocHash(ubicacion) == << Redondear4(ubicacion.lat), Redondear4(ubicacion.lon) >>

\* a key made without the user
CacheKeyDeRota(user_id, ubicacion, busqueda_msg) ==
    IF ubicacion # NoEntry
    THEN << LocHash(ubicacion), busqueda_msg >>
    ELSE << normalizar_texto(busqueda_msg) >>

\* lines 1281-1286: md5 of "user_id:loc_hash:busqueda_msg" when the user has
\* a location, of "user_id:normalizar_texto(busqueda_msg)" otherwise; md5
\* is taken to be injective, so the key is the tuple it is computed from
CacheKeyDe(user_id, ubicacion, busqueda_msg) ==
    IF ubicacion # NoEntry
    THEN << user_id, LocHash(ubicacion), busqueda_msg >>
    ELSE << user_id, normalizar_texto(busqueda_msg) >>

\* texts of busqueda_msg: "Pan", "pan", " pán", "bar"
Busquedas ==
    { <<"P", "a", "n">>, <<"p", "a", "n">>, <<" ", "p", "á", "n">>,
      <<"b", "a", "r">> }

\* stored locations (lat, lon): two in the same 1e-4 bucket and one outside
Ubicaciones ==
    { [lat |-> -3492112, lon |-> -5795431], [lat |-> -3492108, lon |-> -5795434],
      [lat |-> -3492167, lon |-> -5795431] }

\* the arguments: one user and location state, two texts
InitClave ==
    /\ InitPrograma
    /\ entrada \in [user_id : Usuarios,
                    ubicacion : Ubicaciones \cup {NoEntry},
                    q1 : Busquedas, q2 : Busquedas]
    /\ salida = NoEntry

\* lines 1281-1286, for each of the two texts
CalcularClave ==
    /\ salida = NoEntry
    /\ salida' = [k1 |-> CacheKeyDe(entrada.user_id, entrada.ubicacion, entrada.q1),
                  k2 |-> CacheKeyDe(entrada.user_id, entrada.ubicacion, entrada.q2)]
    /\ UNCHANGED << entrada, vars_programa >>

NextClave == CalcularClave

SpecClave == InitClave /\ [][NextClave]_vars

\* C11: for the same user and the same location state, two merged queries
\* whose normalized texts are equal get the same cache key, with and without
\* a known location.
C11_MismaClave ==
    (/\ salida # NoEntry
     /\ normalizar_texto(entrada.q1) = normalizar_texto(entrada.q2))
        => salida.k1 = salida.k2

\* ------------------------------------------------- the schedule parser
\* characters
EsDigito(c) == c \in {"0", "1", "2", "3", "4", "5", "6", "7", "8", "9"}

\* int(c) for a digit c
Digito(c) ==
    CASE c = "0" -> 0 [] c = "1" -> 1 [] c = "2" -> 2 [] c = "3" -> 3
      [] c = "4" -> 4 [] c = "5" -> 5 [] c = "6" -> 6 [] c = "7" -> 7
      [] c = "8" -> 8 [] c = "9" -> 9

\* the class [a-záéíóú] of the regular expressions of lines 703 and 714
EsLetraDia(c) ==
    c \in {"a", "b", "c", "d", "e", "f", "g", "h", "i", "j", "k", "l", "m",
           "n", "o", "p", "q", "r", "s", "t", "u", "v", "w", "x", "y", "z",
           "á", "é", "í", "ó", "ú"}

\* the class \w: letters of any case, digits and "_"
EsPalabra(c) ==
    \/ EsLetraDia(c) \/ EsDigito(c) \/ c = "_" \/ c \in {"ñ", "ü"}
    \/ Minuscula(c) # c

\* the class of the hyphen and the en dash (U+2013, written "ndash" here)
EsGuion(c) == c \in {"-", "ndash"}

\* str.lower()
Minusculas(s) == [i \in 1..Len(s) |-> Minuscula(s[i])]

\* `sub in s`
Contiene(s, sub) ==
    \E i \in 1..(Len(s) - Len(sub) + 1) : SubSeq(s, i, i + Len(sub) - 1) = sub

\* c belongs to the character class named clase
EnClase(clase, c) ==
    CASE clase = "espacio" -> EsEspacio(c)
      [] clase = "palabra" -> EsPalabra(c)
      [] clase = "letra" -> EsLetraDia(c)

RECURSIVE FinDeRacha(_, _, _)
\* last index of the longest run of characters of the class that starts at
\* index i of s; i - 1 when s[i] is not of the class
FinDeRacha(clase, s, i) ==
    IF i <= Len(s) /\ EnClase(clase, s[i])
    THEN FinDeRacha(clase, s, i + 1)
    ELSE i - 1

\* the smallest member of a non-empty set of integers
Minimo(S) == CHOOSE x \in S : \A y \in S : x <= y

\* lines 607-615: _DIAS_NOMBRES, -1 for a missing key
DIAS_NOMBRES(s) ==
    CASE s = <<"l", "u", "n", "e", "s">> -> 0
      [] s = <<"l", "u", "n">> -> 0
      [] s = <<"l", "u">> -> 0
      [] s = <<"m", "a", "r", "t", "e", "s">> -> 1
      [] s = <<"m", "a", "r">> -> 1
      [] s = <<"m", "a">> -> 1
      [] s = <<"m", "i", "e", "r", "c", "o", "l", "e", "s">> -> 2
      [] s = <<"m", "i", "e">> -> 2
      [] s = <<"m", "i">> -> 2
      [] s = <<"j", "u", "e", "v", "e", "s">> -> 3
      [] s = <<"j", "u", "e">> -> 3
      [] s = <<"j", "u">> -> 3
      [] s = <<"v", "i", "e", "r", "n", "e", "s">> -> 4
      [] s = <<"v", "i", "e">> -> 4
      [] s = <<"v", "i">> -> 4
      [] s = <<"s", "a", "b", "a", "d", "o">> -> 5
      [] s = <<"s", "a", "b">> -> 5
      [] s = <<"s", "a">> -> 5
      [] s = <<"d", "o", "m", "i", "n", "g", "o">> -> 6
      [] s = <<"d", "o", "m">> -> 6
      [] s = <<"d", "o">> -> 6
      [] OTHER -> -1

\* lines 617-619: _DIAS_LETRA, -1 for a missing key
DIAS_LETRA(s) ==
    CASE s = <<"l">> -> 0
      [] s = <<"m">> -> 1
      [] s = <<"x">> -> 2
      [] s = <<"j">> -> 3
      [] s = <<"v">> -> 4
      [] s = <<"s">> -> 5
      [] s = <<"d">> -> 6
      [] OTHER -> -1

RECURSIVE RStripPunto(_)
\* str.rstrip(".")
RStripPunto(s) ==
    IF Len(s) > 0 /\ s[Len(s)] = "."
    THEN RStripPunto(SubSeq(s, 1, Len(s) - 1))
    ELSE s

\* lines 622-629: _normalizar_dia, -1 for None
normalizar_dia_Roto(s0) == -1
normalizar_dia(s0) ==
    LET s == normalizar_texto(RStripPunto(Strip(s0)))
    IN IF DIAS_NOMBRES(s) # -1 THEN DIAS_NOMBRES(s)
       ELSE IF Len(s) = 1 /\ DIAS_LETRA(s) # -1 THEN DIAS_LETRA(s)
       ELSE -1

\* list(range(a, b)): a, a + 1, ... b - 1
Rango(a, b) == [i \in 1..(b - a) |-> a + i - 1]

\* _expandir_rango_dias without the branch for fin < inicio
expandir_rango_dias_Roto(inicio, fin) == Rango(inicio, fin + 1)

\* lines 648-652: _expandir_rango_dias
expandir_rango_dias(inicio, fin) ==
    IF fin >= inicio THEN Rango(inicio, fin + 1)
    ELSE Rango(inicio, 7) \o Rango(0, fin + 1)

\* the days of the list l, for the test "dia_actual not in dias_validos" of
\* line 724
DiasDe(l) == {l[i] : i \in 1..Len(l)}

\* line 675 without re.IGNORECASE
Marca24Roto(h) ==
    \E i \in 1..(Len(h) - 1) :
        /\ h[i] = "2"
        /\ h[i + 1] = "4"
        /\ LET j == FinDeRacha("espacio", h, i + 2) + 1
           IN \/ j + 1 <= Len(h) /\ SubSeq(h, j, j + 1) = <<"h", "s">>
              \/ j + 3 <= Len(h) /\ SubSeq(h, j, j + 3) = <<"h", "o", "r", "a">>

\* line 675: re.search(r"24\s*(?:hs|horas?)", h, re.IGNORECASE)
Marca24(h) ==
    \E i \in 1..(Len(h) - 1) :
        /\ h[i] = "2"
        /\ h[i + 1] = "4"
        /\ LET j == FinDeRacha("espacio", h, i + 2) + 1
               m == Minusculas(h)
           IN \/ j + 1 <= Len(h) /\ SubSeq(m, j, j + 1) = <<"h", "s">>
              \/ j + 3 <= Len(h) /\ SubSeq(m, j, j + 3) = <<"h", "o", "r", "a">>

\* the class [|;\n] of line 682
EsSeparador(c) == c \in {"|", ";", "\n"}

RECURSIVE Partir(_)
\* line 682: re.split(r"[|;\n]", h)
Partir(s) ==
    LET seps == {i \in 1..Len(s) : EsSeparador(s[i])}
    IN IF seps = {} THEN << s >>
       ELSE << SubSeq(s, 1, Minimo(seps) - 1) >>
                \o Partir(SubSeq(s, Minimo(seps) + 1, Len(s)))

\* (\w+)\s+a\s+(\w+) matches from index p of s.  \w+ and \s+ are greedy and
\* what follows each of them cannot start inside the run, so each takes its
\* whole run.
CoincideA(s, p) ==
    LET r == FinDeRacha("palabra", s, p)
        e1 == FinDeRacha("espacio", s, r + 1)
        e2 == FinDeRacha("espacio", s, e1 + 2)
    IN /\ r >= p
       /\ e1 >= r + 1
       /\ e1 + 1 <= Len(s)
       /\ s[e1 + 1] = "a"
       /\ e2 >= e1 + 2
       /\ e2 + 1 <= Len(s)
       /\ EsPalabra(s[e2 + 1])

RECURSIVE SustituirA(_)
\* line 696: re.sub(r"(\w+)\s+a\s+(\w+)", r"\1-\2", seg_lower): the leftmost
\* match is replaced and the search goes on after it
SustituirA(s) ==
    LET ps == {p \in 1..Len(s) : CoincideA(s, p)}
    IN IF ps = {} THEN s
       ELSE LET p == Minimo(ps)
                r == FinDeRacha("palabra", s, p)
                e1 == FinDeRacha("espacio", s, r + 1)
                e2 == FinDeRacha("espacio", s, e1 + 2)
                f == FinDeRacha("palabra", s, e2 + 1)
            IN SubSeq(s, 1, r) \o <<"-">> \o SubSeq(s, e2 + 1, f)
                   \o SustituirA(SubSeq(s, f + 1, Len(s)))

\* \b([a-záéíóú]+)\s*[-–]\s*([a-záéíóú]+)\b matches from index i of s
CoincideRangoDias(s, i) ==
    /\ EsLetraDia(s[i])
    /\ (i = 1 \/ ~EsPalabra(s[i - 1]))
    /\ LET j == FinDeRacha("letra", s, i)
           g == FinDeRacha("espacio", s, j + 1) + 1
           k == FinDeRacha("espacio", s, g + 1) + 1
           l == FinDeRacha("letra", s, k)
       IN /\ g <= Len(s)
          /\ EsGuion(s[g])
          /\ l >= k
          /\ (l = Len(s) \/ ~EsPalabra(s[l + 1]))

\* lines 702-705: day_range = re.search(...): its two groups, NoEntry for
\* no match
RangoDias(s) ==
    LET is == {i \in 1..Len(s) : CoincideRangoDias(s, i)}
    IN IF is = {} THEN NoEntry
       ELSE LET i == Minimo(is)
                j == FinDeRacha("letra", s, i)
                g == FinDeRacha("espacio", s, j + 1) + 1
                k == FinDeRacha("espacio", s, g + 1) + 1
                l == FinDeRacha("letra", s, k)
            IN [g1 |-> SubSeq(s, i, j), g2 |-> SubSeq(s, k, l)]

\* line 714: first_word = re.match(r"([a-záéíóú]+)", seg_proc): its group,
\* the empty text for no match
PrimeraPalabra(s) == SubSeq(s, 1, FinDeRacha("letra", s, 1))

\* dias_validos with the leading day token tried before the day range
DiasValidosRoto(seg_proc) ==
    LET day_range == RangoDias(seg_proc)
        d1 == normalizar_dia(day_range.g1)
        d2 == normalizar_dia(day_range.g2)
        first_word == PrimeraPalabra(seg_proc)
        d == normalizar_dia(first_word)
    IN IF first_word # << >> /\ d # -1 THEN {d}
       ELSE IF day_range # NoEntry /\ d1 # -1 /\ d2 # -1
       THEN DiasDe(expandir_rango_dias(d1, d2))
       ELSE 0..6

\* lines 699-722: dias_validos of a segment, as a set
DiasValidos(seg_proc) ==
    LET day_range == RangoDias(seg_proc)
        d1 == normalizar_dia(day_range.g1)
        d2 == normalizar_dia(day_range.g2)
        first_word == PrimeraPalabra(seg_proc)
        d == normalizar_dia(first_word)
    IN IF day_range # NoEntry /\ d1 # -1 /\ d2 # -1
       THEN DiasDe(expandir_rango_dias(d1, d2))
       ELSE IF first_word # << >> /\ d # -1 THEN {d}
       ELSE 0..6

\* [:.]\d{2} follows index e of s
SigueMinutos(s, e) ==
    /\ e + 3 <= Len(s)
    /\ s[e + 1] \in {":", "."}
    /\ EsDigito(s[e + 2])
    /\ EsDigito(s[e + 3])

\* the ends of a match of \d{1,2}(?:[:.]\d{2})? from index i of s, in the
\* order the regular expression tries them: two digits before one, minutes
\* before none
FinesHora(s, i) ==
    LET d1 == i <= Len(s) /\ EsDigito(s[i])
        d2 == d1 /\ i + 1 <= Len(s) /\ EsDigito(s[i + 1])
    IN (IF d2 /\ SigueMinutos(s, i + 1) THEN << i + 4 >> ELSE << >>)
       \o (IF d2 THEN << i + 1 >> ELSE << >>)
       \o (IF d1 /\ SigueMinutos(s, i) THEN << i + 3 >> ELSE << >>)
       \o (IF d1 THEN << i >> ELSE << >>)

\* \s*[-–]\s* and a second hour follow index e of s: the index where the
\* second hour starts, 0 when they do not follow
InicioCierre(s, e) ==
    LET g == FinDeRacha("espacio", s, e + 1) + 1
        k == FinDeRacha("espacio", s, g + 1) + 1
    IN IF g <= Len(s) /\ EsGuion(s[g]) /\ FinesHora(s, k) # << >>
       THEN k ELSE 0

\* the match of (\d{1,2}(?:[:.]\d{2})?)\s*[-–]\s*(\d{1,2}(?:[:.]\d{2})?)
\* from index i of s: its two groups and its end, NoEntry for no match
CoincideRangoHora(s, i) ==
    LET fs == FinesHora(s, i)
        ok == {n \in 1..Len(fs) : InicioCierre(s, fs[n]) # 0}
    IN IF ok = {} THEN NoEntry
       ELSE LET e == fs[Minimo(ok)]
                k == InicioCierre(s, e)
                f == FinesHora(s, k)[1]
            IN [open_str |-> SubSeq(s, i, e), close_str |-> SubSeq(s, k, f),
                fin |-> f]

RECURSIVE RangosHora(_, _)
\* lines 729-732: re.findall(...) on seg_proc from index desde on: the
\* matches from left to right, each search starting after the last match
RangosHora(s, desde) ==
    LET is == {i \in desde..Len(s) : CoincideRangoHora(s, i) # NoEntry}
    IN IF is = {} THEN << >>
       ELSE LET m == CoincideRangoHora(s, Minimo(is))
            IN << [open_str |-> m.open_str, close_str |-> m.close_str] >>
                   \o RangosHora(s, m.fin + 1)

RECURSIVE Entero(_)
\* int(s) for a text of digits
Entero(s) ==
    IF Len(s) = 0 THEN 0
    ELSE 10 * Entero(SubSeq(s, 1, Len(s) - 1)) + Digito(s[Len(s)])

\* int(s) and float(s) raise ValueError on these texts
NoEsNumero(s) == Len(s) = 0 \/ \E i \in 1..Len(s) : ~EsDigito(s[i])

\* str.split(":")
PartirEn(s, c) ==
    LET RECURSIVE P(_)
        P(t) == LET is == {i \in 1..Len(t) : t[i] = c}
                IN IF is = {} THEN << t >>
                   ELSE << SubSeq(t, 1, Minimo(is) - 1) >>
                            \o P(SubSeq(t, Minimo(is) + 1, Len(t)))
    IN P(s)

\* lines 632-645: _parsear_hora, in minutes (the code counts in hours: h
\* hours and m minutes are h + m / 60), -1 for None
parsear_hora(h_str) ==
    LET t == Strip(h_str)
        h == [i \in 1..Len(t) |-> IF t[i] = "." THEN ":" ELSE t[i]]
        parts == PartirEn(h, ":")
    IN IF \E i \in 1..Len(h) : h[i] = ":"
       THEN IF NoEsNumero(parts[1]) \/ NoEsNumero(parts[2]) THEN -1
            ELSE 60 * Entero(parts[1]) + Entero(parts[2])
       ELSE IF NoEsNumero(h) THEN -1
            ELSE IF Entero(h) <= 24 THEN 60 * Entero(h) ELSE -1

\* lines 740-747: the instant is inside the range
RangoAbiertoRoto(open_h, close_h, hora_actual) ==
    open_h <= hora_actual /\ hora_actual <= close_h
RangoAbierto(open_h, close_h, hora_actual) ==
    \/ close_h > open_h /\ open_h <= hora_actual /\ hora_actual < close_h
    \/ close_h < open_h /\ (hora_actual >= open_h \/ hora_actual < close_h)

\* lines 684-693: the loop body goes on to look at the days and hours of the
\* segment
SeEvalua(seg0) ==
    LET seg == Strip(seg0)
    IN seg # << >> /\ ~Contiene(Minusculas(seg), <<"c", "e", "r", "r", "a", "d", "o">>)

\* lines 724-725: the weekday of the instant is one of the segment's days
DiaAplica(seg0, ahora) ==
    ahora.weekday \in DiasValidos(SustituirA(Minusculas(Strip(seg0))))

\* lines 735-747: both hours of a range parse and the range holds the
\* instant
HorasAbiertas(open_h, close_h, hora_actual) ==
    /\ open_h # -1
    /\ close_h # -1
    /\ RangoAbierto(open_h, close_h, hora_actual)

\* lines 734-747: `for open_str, close_str in time_ranges` returns True
AlgunRangoAbierto(time_ranges, hora_actual) ==
    \E n \in 1..Len(time_ranges) :
        HorasAbiertas(parsear_hora(time_ranges[n].open_str),
                      parsear_hora(time_ranges[n].close_str), hora_actual)

\* lines 684-747: one pass of the loop returns True
SegmentoAbierto(seg0, ahora) ==
    /\ SeEvalua(seg0)
    /\ DiaAplica(seg0, ahora)
    /\ AlgunRangoAbierto(RangosHora(SustituirA(Minusculas(Strip(seg0))), 1),
                         60 * ahora.hour + ahora.minute)

\* lines 684-747: `for seg in segmentos` returns True
AlgunSegmentoAbierto(segmentos, ahora) ==
    \E n \in 1..Len(segmentos) : SegmentoAbierto(segmentos[n], ahora)

\* lines 669-751 on the stripped text h
EstadoDeHorario(h, ahora) ==
    IF h = << >> THEN "None"
    ELSE IF Marca24(h) THEN "True"
    ELSE IF AlgunSegmentoAbierto(Partir(h), ahora) THEN "True"
    ELSE "False"

\* lines 655-751: esta_abierto_ahora; "True", "False" and "None" stand for
\* the three values the function returns
esta_abierto_ahora(horario_str, ahora) ==
    EstadoDeHorario(Strip(horario_str), ahora)

Horarios ==
    { H_LunVie, H_MonFri, H_Nocturno, H_Igual,
      H_Blanco, H_SoloSeparador, H_Consultar, H_DosSegmentos,
      H_Partido, H_Cerrado, H_HoraMala, H_SabMedia,
      H_24hs, H_24Horas, H_24Mixto, H_24Hora,
      H_SabMar, H_SabFeriados, H_Domingo, H_Todos,
      H_Feriados, H_AbiertoRango, H_LaV }

\* instants: Monday, Wednesday, Saturday and Sunday at some times of day
Instantes ==
    { [weekday |-> d, hour |-> t[1], minute |-> t[2]] :
          d \in {0, 2, 5, 6},
          t \in { <<2, 0>>, <<8, 0>>, <<9, 30>>, <<10, 0>>, <<12, 0>>,
                  <<19, 59>>, <<20, 0>>, <<23, 0>> } }

\* the arguments: a schedule text and an instant
InitHorario ==
    /\ InitPrograma
    /\ entrada \in [horario : Horarios, ahora : Instantes]
    /\ salida = NoEntry

\* lines 655-751: the call esta_abierto_ahora(horario, ahora)
EvaluarHorario ==
    /\ salida = NoEntry
    /\ salida' = [estado |-> esta_abierto_ahora(entrada.horario, entrada.ahora)]
    /\ UNCHANGED << entrada, vars_programa >>

NextHorario == EvaluarHorario

SpecHorario == InitHorario /\ [][NextHorario]_vars

\* ---------------------------------------- properties of esta_abierto_ahora
\* the call was made with this text at this weekday and time
Evaluado(horario, weekday, hour, minute) ==
    /\ salida # NoEntry
    /\ entrada.horario = horario
    /\ entrada.ahora = [weekday |-> weekday, hour |-> hour, minute |-> minute]

\* C17 as the specification words it: for the schedule "Mon-Fri 8-20" the
\* result is open at Wednesday 19:59, closed at Wednesday 20:00 and closed
\* at Saturday 10:00.
C17_MonFri ==
    /\ Evaluado(H_MonFri, 2, 19, 59) => salida.estado = "True"
    /\ Evaluado(H_MonFri, 2, 20, 0) => salida.estado = "False"
    /\ Evaluado(H_MonFri, 5, 10, 0) => salida.estado = "False"

\* C17, with the day names of the day table: for the schedule
\* "Lun-Vie 8-20" the result is open at Wednesday 19:59, closed at Wednesday
\* 20:00 and closed at Saturday 10:00.
C17_LunVie ==
    /\ Evaluado(H_LunVie, 2, 19, 59) => salida.estado = "True"
    /\ Evaluado(H_LunVie, 2, 20, 0) => salida.estado = "False"
    /\ Evaluado(H_LunVie, 5, 10, 0) => salida.estado = "False"

C17_Witness == Evaluado(H_LunVie, 5, 10, 0) /\ salida.estado = "False"

\* no hour range of the text has two hours that parse
SinHorasValidas(horario) ==
    LET segmentos == Partir(Strip(horario))
    IN \A n \in 1..Len(segmentos) :
           LET rs == RangosHora(SustituirA(Minusculas(Strip(segmentos[n]))), 1)
           IN \A k \in 1..Len(rs) :
                  \/ parsear_hora(rs[k].open_str) = -1
                  \/ parsear_hora(rs[k].close_str) = -1

\* C18: a non-blank schedule text that cannot be parsed (no recognisable
\* hour range, or hour tokens that fail to parse) yields indeterminate
\* (None), neither open nor closed.
C18_NoParseable ==
    (/\ salida # NoEntry
     /\ Strip(entrada.horario) # << >>
     /\ ~Marca24(entrada.horario)
     /\ SinHorasValidas(entrada.horario))
        => salida.estado = "None"

\* C19: without a 24-hours marker the result is open iff at least one
\* segment matches the instant, it is closed only when no segment matches
\* and at least one (non-empty) segment was evaluated, and a blank text
\* gives indeterminate.
C19_PorSegmentos ==
    (salida # NoEntry /\ ~Marca24(entrada.horario)) =>
        LET segmentos == Partir(Strip(entrada.horario))
            alguno == \E n \in 1..Len(segmentos) :
                          SegmentoAbierto(segmentos[n], entrada.ahora)
        IN /\ salida.estado = "True" <=> alguno
           /\ salida.estado = "False" =>
                  /\ ~alguno
                  /\ \E n \in 1..Len(segmentos) : Strip(segmentos[n]) # << >>
           /\ Strip(entrada.horario) = << >> => salida.estado = "None"

\* the text contains "24hs" or "24 horas", in any letter case
Dice24(horario) ==
    \/ Contiene(Minusculas(horario), <<"2", "4", "h", "s">>)
    \/ Contiene(Minusculas(horario), <<"2", "4", " ", "h", "o", "r", "a", "s">>)

\* C21: for every schedule text that contains "24hs" or "24 horas" in any
\* letter case, the result is open at every instant, whatever else the text
\* contains.
C21_Siempre24 ==
    (salida # NoEntry /\ Dice24(entrada.horario)) => salida.estado = "True"

\* "Dom cerrado 24 HORAS" was evaluated on a Sunday at 02:00
C21_Witness == Evaluado(H_24Horas, 6, 2, 0) /\ salida.estado = "True"

\* schedules of one segment whose hour range 0-24 holds every instant, with
\* the weekdays (0 = Monday) the segment applies to
C22_Dias ==
    { [horario |-> H_SabMar, dias |-> {5, 6, 0, 1}],
      [horario |-> H_AbiertoRango, dias |-> {0, 1, 2}],
      [horario |-> H_LaV, dias |-> {0, 1, 2, 3, 4}],
      [horario |-> H_SabFeriados, dias |-> {5}],
      [horario |-> H_Domingo, dias |-> {6}],
      [horario |-> H_Todos, dias |-> 0..6],
      [horario |-> H_Feriados, dias |-> 0..6] }

\* C22: the days of a segment are resolved in a fixed order: a day-day
\* range whose two ends are both in the day table gives that range;
\* otherwise a leading day token that is in the table gives that one day;
\* otherwise (no day token, or tokens not in the table) the segment applies
\* to all seven days; and the segment does not match when the weekday of
\* the instant is outside the resolved days.
C22_ResolucionDeDias ==
    salida # NoEntry =>
        \A r \in C22_Dias :
            entrada.horario = r.horario =>
                (salida.estado = "True" <=> entrada.ahora.weekday \in r.dias)

\* "Sab-Feriados 0-24" (the range does not resolve, its leading token
\* does) was evaluated on a Sunday
C22_Witness == Evaluado(H_SabFeriados, 6, 10, 0) /\ salida.estado = "False"

\* schedules of one segment and one hour range, with the opening and the
\* closing time in minutes after midnight
C20_Rangos ==
    { [horario |-> H_Nocturno, open |-> 22 * 60, close |-> 6 * 60],
      [horario |-> H_LunVie, open |-> 8 * 60, close |-> 20 * 60],
      [horario |-> H_Igual, open |-> 8 * 60, close |-> 8 * 60],
      [horario |-> H_SabMedia, open |-> 9 * 60 + 30, close |-> 13 * 60] }

\* C20: on a weekday of the segment's day set, a range with close > open
\* matches exactly when open <= time < close, an overnight range
\* (close < open, "22-6") exactly when time >= open or time < close (open
\* at 23:00 and 02:00, closed at 12:00), and a range with close = open
\* never.
C20_RangoHorario ==
    salida # NoEntry =>
        \A r \in C20_Rangos :
            (entrada.horario = r.horario /\ DiaAplica(r.horario, entrada.ahora)) =>
                LET t == 60 * entrada.ahora.hour + entrada.ahora.minute
                IN salida.estado = "True" <=>
                       \/ r.close > r.open /\ r.open <= t /\ t < r.close
                       \/ r.close < r.open /\ (t >= r.open \/ t < r.close)

C20_Witness == Evaluado(H_Nocturno, 2, 2, 0) /\ salida.estado = "True"

\* ------------------------------------------ failure of the generation call
\* the step ends call t while it awaits the generation service: no call
\* with its id is left
TerminaEnLlm(t) ==
    /\ t \in en_curso
    /\ t.pc = "llm"
    /\ \A t2 \in en_curso' : t2.id # t.id

\* C15: when the generation call of a turn fails, the turn returns the
\* fixed apology text (the failure does not reach the caller), the call is
\* not made again in that turn, and no cache entry is written.
C15_FallaDeGeneracion ==
    [][\A t \in en_curso :
           TerminaEnLlm(t) =>
               /\ ult_cache' = [op |-> "falla", respuesta |-> DISCULPA]
               /\ cache_respuestas_usuario' = cache_respuestas_usuario
               /\ cache_respuestas_global' = cache_respuestas_global
               /\ cache_lock' = cache_lock
               /\ n_consultas' = n_consultas]_vars

\* the second call failed while the reply of the first was in the cache
C15_Witness ==
    /\ ult_cache = [op |-> "falla", respuesta |-> DISCULPA]
    /\ Len(cache_respuestas_usuario) = 1
    /\ n_consultas = MaxConsultas

\* --------------------------------------------- session memory (LRUDict)
\* users kept in memory, scaled down from 500 (bot.py:106)
MAX_USUARIOS_MEMORIA == 2
\* calls of the storage layer in one behaviour
MaxMemoria == 5

\* users of the storage layer: one more than the capacity
UsuariosMemoria == {"u1", "u2", "u3"}

\* values kept in the maps (a history, a pair of coordinates)
ValoresMemoria == {"v1", "v2"}

\* position of key k in the LRUDict d, 0 when absent
PosicionLRU(d, k) ==
    IF \E i \in 1..Len(d) : d[i].key = k
    THEN CHOOSE i \in 1..Len(d) : d[i].key = k
    ELSE 0

\* the keys of d, oldest first
ClavesLRU(d) == [i \in 1..Len(d) |-> d[i].key]

\* the sequence of keys ks with k moved (or added) to its end
AlFinal(ks, k) == SelectSeq(ks, LAMBDA x : x # k) \o << k >>

\* lines 171-176: LRUDict.__setitem__: an existing key is moved to the end,
\* the value is set, and the first items are popped while the dict is over
\* its size
LRUSet(d, max_size, key, value) ==
    LET puesto == SelectSeq(d, LAMBDA e : e.key # key)
                      \o << [key |-> key, value |-> value] >>
    IN IF Len(puesto) > max_size
       THEN SubSeq(puesto, Len(puesto) - max_size + 1, Len(puesto))
       ELSE puesto

\* OrderedDict.get (lines 438, 471): the value or the default; the order of
\* the dict is not touched
LRUGet(d, key, default) ==
    IF PosicionLRU(d, key) # 0 THEN d[PosicionLRU(d, key)].value ELSE default

\* OrderedDict.pop(key, None) (lines 458-459)
LRUPop(d, key) == SelectSeq(d, LAMBDA e : e.key # key)

\* what a write reports: the keys it expelled, and the key that was least
\* recently read or written before it
Escritura(mapa, u, antes, despues) ==
    [op |-> "set", mapa |-> mapa, user_id |-> u,
     expulsados |-> SelectSeq(ClavesLRU(antes),
                        LAMBDA k : PosicionLRU(despues, k) = 0),
     menos_usado |-> IF uso_memoria[mapa] = << >> THEN NoEntry
                     ELSE [user_id |-> Head(uso_memoria[mapa])]]

\* the keys by last use after a write of u
UsoTrasEscritura(mapa, u, despues) ==
    SelectSeq(AlFinal(uso_memoria[mapa], u),
              LAMBDA k : PosicionLRU(despues, k) # 0)

\* lines 430-438, redis_client is None: obtener_historial
ObtenerHistorial(u) ==
    /\ n_memoria < MaxMemoria
    /\ n_memoria' = n_memoria + 1
    /\ ult_memoria' = [op |-> "get", mapa |-> "historial", user_id |-> u,
                       valor |-> LRUGet(historiales_memoria, u, "vacio")]
    /\ uso_memoria' = IF PosicionLRU(historiales_memoria, u) # 0
                      THEN [uso_memoria EXCEPT
                                !.historial = AlFinal(uso_memoria.historial, u)]
                      ELSE uso_memoria
    /\ UNCHANGED << historiales_memoria, ubicaciones_memoria >>
    /\ UNCHANGED << vars_cola, vars_cache, vars_puro, vars_turno, vars_mensajes >>

\* lines 441-448, redis_client is None: guardar_historial
GuardarHistorial(u, v) ==
    /\ n_memoria < MaxMemoria
    /\ n_memoria' = n_memoria + 1
    /\ LET despues == LRUSet(historiales_memoria, MAX_USUARIOS_MEMORIA, u, v)
       IN /\ historiales_memoria' = despues
          /\ ult_memoria' = Escritura("historial", u, historiales_memoria, despues)
          /\ uso_memoria' = [uso_memoria EXCEPT
                 !.historial = UsoTrasEscritura("historial", u, despues)]
    /\ UNCHANGED ubicaciones_memoria
    /\ UNCHANGED << vars_cola, vars_cache, vars_puro, vars_turno, vars_mensajes >>

\* lines 462-471, redis_client is None: obtener_ubicacion
ObtenerUbicacion(u) ==
    /\ n_memoria < MaxMemoria
    /\ n_memoria' = n_memoria + 1
    /\ ult_memoria' = [op |-> "get", mapa |-> "ubicacion", user_id |-> u,
                       valor |-> LRUGet(ubicaciones_memoria, u, "None")]
    /\ uso_memoria' = IF PosicionLRU(ubicaciones_memoria, u) # 0
                      THEN [uso_memoria EXCEPT
                                !.ubicacion = AlFinal(uso_memoria.ubicacion, u)]
                      ELSE uso_memoria
    /\ UNCHANGED << historiales_memoria, ubicaciones_memoria >>
    /\ UNCHANGED << vars_cola, vars_cache, vars_puro, vars_turno, vars_mensajes >>

\* lines 474-484, redis_client is None: guardar_ubicacion
GuardarUbicacion(u, v) ==
    /\ n_memoria < MaxMemoria
    /\ n_memoria' = n_memoria + 1
    /\ LET despues == LRUSet(ubicaciones_memoria, MAX_USUARIOS_MEMORIA, u, v)
       IN /\ ubicaciones_memoria' = despues
          /\ ult_memoria' = Escritura("ubicacion", u, ubicaciones_memoria, despues)
          /\ uso_memoria' = [uso_memoria EXCEPT
                 !.ubicacion = UsoTrasEscritura("ubicacion", u, despues)]
    /\ UNCHANGED historiales_memoria
    /\ UNCHANGED << vars_cola, vars_cache, vars_puro, vars_turno, vars_mensajes >>

\* lines 451-459, redis_client is None: eliminar_historial
EliminarHistorial(u) ==
    /\ n_memoria < MaxMemoria
    /\ n_memoria' = n_memoria + 1
    /\ historiales_memoria' = LRUPop(historiales_memoria, u)
    /\ ubicaciones_memoria' = LRUPop(ubicaciones_memoria, u)
    /\ ult_memoria' = [op |-> "pop", user_id |-> u]
    /\ uso_memoria' =
           [historial |-> SelectSeq(uso_memoria.historial, LAMBDA k : k # u),
            ubicacion |-> SelectSeq(uso_memoria.ubicacion, LAMBDA k : k # u)]
    /\ UNCHANGED << vars_cola, vars_cache, vars_puro, vars_turno, vars_mensajes >>

InitMemoria == InitVarsCola /\ InitVarsCache /\ InitVarsResto

NextMemoria ==
    \/ \E u \in UsuariosMemoria : ObtenerHistorial(u)
    \/ \E u \in UsuariosMemoria, v \in ValoresMemoria : GuardarHistorial(u, v)
    \/ \E u \in UsuariosMemoria : ObtenerUbicacion(u)
    \/ \E u \in UsuariosMemoria, v \in ValoresMemoria : GuardarUbicacion(u, v)
    \/ \E u \in UsuariosMemoria : EliminarHistorial(u)

SpecMemoria == InitMemoria /\ [][NextMemoria]_vars

\* C13: the history map and the location map each hold at most
\* MAX_USUARIOS_MEMORIA users, and a write that exceeds the capacity expels
\* the least recently used user, reads and writes both counting as use.
C13_LRU ==
    /\ Len(historiales_memoria) <= MAX_USUARIOS_MEMORIA
    /\ Len(ubicaciones_memoria) <= MAX_USUARIOS_MEMORIA
    /\ (ult_memoria.op = "set" /\ ult_memoria.expulsados # << >>) =>
           ult_memoria.expulsados = << ult_memoria.menos_usado.user_id >>

\* ------------------------------------------------- synonyms and zones
\* lines 231-394: SINONIMOS, the terms of a key in list order, the empty
\* list for a word that is not a key
SINONIMOS(p) ==
    CASE p = <<"p", "i", "z", "z", "a">> ->
           << <<"p", "i", "z", "z", "e", "r", "i", "a">>,
              <<"p", "i", "z", "z", "e", "r", "í", "a">> >>
      [] p = <<"p", "i", "z", "z", "a", "s">> ->
           << <<"p", "i", "z", "z", "e", "r", "i", "a">>,
              <<"p", "i", "z", "z", "e", "r", "í", "a">> >>
      [] p = <<"f", "u", "g", "a", "z", "z", "e", "t", "a">> ->
           << <<"p", "i", "z", "z", "e", "r", "i", "a">>,
              <<"p", "i", "z", "z", "e", "r", "í", "a">> >>
      [] p = <<"m", "u", "z", "z", "a", "r", "e", "l", "l", "a">> ->
           << <<"p", "i", "z", "z", "e", "r", "i", "a">>,
              <<"p", "i", "z", "z", "e", "r", "í", "a">> >>
      [] p = <<"e", "m", "p", "a", "n", "a", "d", "a">> ->
           << <<"e", "m", "p", "a", "n", "a", "d", "a", "s">>,
              <<"g", "a", "s", "t", "r", "o", "n", "o", "m", "i", "a">>,
              <<"g", "a", "s", "t", "r", "o", "n", "o", "m", "í", "a">> >>
      [] p = <<"e", "m", "p", "a", "n", "a", "d", "a", "s">> ->
           << <<"g", "a", "s", "t", "r", "o", "n", "o", "m", "i", "a">>,
              <<"g", "a", "s", "t", "r", "o", "n", "o", "m", "í", "a">>,
              <<"p", "i", "z", "z", "e", "r", "i", "a">>,
              <<"p", "i", "z", "z", "e", "r", "í", "a">> >>
      [] p = <<"h", "a", "m", "b", "u", "r", "g", "u", "e", "s", "a">> ->
           << <<"h", "a", "m", "b", "u", "r", "g", "u", "e", "s", "e", "r", "i", "a">>,
              <<"h", "a", "m", "b", "u", "r", "g", "u", "e", "s", "e", "r", "í", "a">>,
              <<"h", "a", "m", "b", "u", "r", "g", "u", "e", "s", "a", "s">> >>
      [] p = <<"h", "a", "m", "b", "u", "r", "g", "u", "e", "s", "a", "s">> ->
           << <<"h", "a", "m", "b", "u", "r", "g", "u", "e", "s", "e", "r", "i", "a">>,
              <<"h", "a", "m", "b", "u", "r", "g", "u", "e", "s", "e", "r", "í", "a">> >>
      [] p = <<"b", "u", "r", "g", "e", "r">> ->
           << <<"h", "a", "m", "b", "u", "r", "g", "u", "e", "s", "e", "r", "i", "a">>,
              <<"h", "a", "m", "b", "u", "r", "g", "u", "e", "s", "e", "r", "í", "a">>,
              <<"h", "a", "m", "b", "u", "r", "g", "u", "e", "s", "a", "s">> >>
      [] p = <<"s", "u", "s", "h", "i">> ->
           << <<"s", "u", "s", "h", "i">>,
              <<"j", "a", "p", "o", "n", "e", "s">>,
              <<"j", "a", "p", "o", "n", "é", "s">>,
              <<"r", "o", "l", "l", "s">> >>
      [] p = <<"r", "o", "l", "l", "s">> ->
           << <<"s", "u", "s", "h", "i">>,
              <<"j", "a", "p", "o", "n", "e", "s">> >>
      [] p = <<"h", "e", "l", "a", "d", "o">> ->
           << <<"h", "e", "l", "a", "d", "e", "r", "i", "a">>,
              <<"h", "e", "l", "a", "d", "e", "r", "í", "a">> >>
      [] p = <<"h", "e", "l", "a", "d", "o", "s">> ->
           << <<"h", "e", "l", "a", "d", "e", "r", "i", "a">>,
              <<"h", "e", "l", "a", "d", "e", "r", "í", "a">> >>
      [] p = <<"f", "a", "c", "t", "u", "r", "a", "s">> ->
           << <<"p", "a", "n", "a", "d", "e", "r", "i", "a">>,
              <<"p", "a", "n", "a", "d", "e", "r", "í", "a">> >>
      [] p = <<"p", "a", "n">> ->
           << <<"p", "a", "n", "a", "d", "e", "r", "i", "a">>,
              <<"p", "a", "n", "a", "d", "e", "r", "í", "a">> >>
      [] p = <<"m", "e", "d", "i", "a", "l", "u", "n", "a", "s">> ->
           << <<"p", "a", "n", "a", "d", "e", "r", "i", "a">>,
              <<"p", "a", "n", "a", "d", "e", "r", "í", "a">>,
              <<"c", "a", "f", "e", "t", "e", "r", "i", "a">>,
              <<"c", "a", "f", "e", "t", "e", "r", "í", "a">> >>
      [] p = <<"t", "o", "r", "t", "a">> ->
           << <<"p", "a", "n", "a", "d", "e", "r", "i", "a">>,
              <<"p", "a", "n", "a", "d", "e", "r", "í", "a">>,
              <<"p", "a", "s", "t", "e", "l", "e", "r", "i", "a">> >>
      [] p = <<"t", "o", "r", "t", "a", "s">> ->
           << <<"p", "a", "n", "a", "d", "e", "r", "i", "a">>,
              <<"p", "a", "n", "a", "d", "e", "r", "í", "a">>,
              <<"p", "a", "s", "t", "e", "l", "e", "r", "i", "a">> >>
      [] p = <<"c", "a", "f", "e">> ->
           << <<"c", "a", "f", "e", "t", "e", "r", "i", "a">>,
              <<"c", "a", "f", "e", "t", "e", "r", "í", "a">>,
              <<"c", "a", "f", "e">>,
              <<"c", "a", "f", "é">> >>
      [] p = <<"c", "a", "f", "e", "c", "i", "t", "o">> ->
           << <<"c", "a", "f", "e", "t", "e", "r", "i", "a">>,
              <<"c", "a", "f", "e", "t", "e", "r", "í", "a">>,
              <<"c", "a", "f", "e">>,
              <<"c", "a", "f", "é">> >>
      [] p = <<"d", "e", "s", "a", "y", "u", "n", "o">> ->
           << <<"c", "a", "f", "e", "t", "e", "r", "i", "a">>,
              <<"c", "a", "f", "e", "t", "e", "r", "í", "a">>,
              <<"c", "a", "f", "e">>,
              <<"c", "a", "f", "é">>,
              <<"b", "r", "u", "n", "c", "h">> >>
      [] p = <<"m", "e", "r", "i", "e", "n", "d", "a">> ->
           << <<"c", "a", "f", "e", "t", "e", "r", "i", "a">>,
              <<"c", "a", "f", "e", "t", "e", "r", "í", "a">>,
              <<"c", "a", "f", "e">>,
              <<"c", "a", "f", "é">> >>
      [] p = <<"b", "r", "u", "n", "c", "h">> ->
           << <<"c", "a", "f", "e", "t", "e", "r", "i", "a">>,
              <<"c", "a", "f", "e", "t", "e", "r", "í", "a">>,
              <<"c", "a", "f", "e">>,
              <<"c", "a", "f", "é">>,
              <<"b", "r", "u", "n", "c", "h">> >>
      [] p = <<"a", "l", "f", "a", "j", "o", "r">> ->
           << <<"a", "l", "f", "a", "j", "o", "r", "e", "s">>,
              <<"h", "a", "v", "a", "n", "n", "a">>,
              <<"k", "i", "o", "s", "c", "o">> >>
      [] p = <<"a", "l", "f", "a", "j", "o", "r", "e", "s">> ->
           << <<"h", "a", "v", "a", "n", "n", "a">>,
              <<"k", "i", "o", "s", "c", "o">>,
              <<"c", "h", "o", "c", "o", "l", "a", "t", "e">> >>
      [] p = <<"c", "h", "o", "c", "o", "l", "a", "t", "e">> ->
           << <<"h", "a", "v", "a", "n", "n", "a">>,
              <<"k", "i", "o", "s", "c", "o">>,
              <<"c", "a", "f", "e", "t", "e", "r", "i", "a">> >>
      [] p = <<"c", "a", "r", "n", "e">> ->
           << <<"c", "a", "r", "n", "i", "c", "e", "r", "i", "a">>,
              <<"c", "a", "r", "n", "i", "c", "e", "r", "í", "a">>,
              <<"a", "s", "a", "d", "o">> >>
      [] p = <<"a", "s", "a", "d", "o">> ->
           << <<"c", "a", "r", "n", "i", "c", "e", "r", "i", "a">>,
              <<"c", "a", "r", "n", "i", "c", "e", "r", "í", "a">>,
              <<"p", "a", "r", "r", "i", "l", "l", "a">>,
              <<"r", "e", "s", "t", "a", "u", "r", "a", "n", "t", "e">> >>
      [] p = <<"a", "c", "h", "u", "r", "a", "s">> ->
           << <<"c", "a", "r", "n", "i", "c", "e", "r", "i", "a">>,
              <<"c", "a", "r", "n", "i", "c", "e", "r", "í", "a">> >>
      [] p = <<"v", "a", "c", "i", "o">> ->
           << <<"c", "a", "r", "n", "i", "c", "e", "r", "i", "a">>,
              <<"c", "a", "r", "n", "i", "c", "e", "r", "í", "a">> >>
      [] p = <<"p", "o", "l", "l", "o">> ->
           << <<"c", "a", "r", "n", "i", "c", "e", "r", "i", "a">>,
              <<"c", "a", "r", "n", "i", "c", "e", "r", "í", "a">>,
              <<"g", "r", "a", "n", "j", "a">> >>
      [] p = <<"v", "e", "r", "d", "u", "r", "a">> ->
           << <<"v", "e", "r", "d", "u", "l", "e", "r", "i", "a">>,
              <<"v", "e", "r", "d", "u", "l", "e", "r", "í", "a">> >>
      [] p = <<"v", "e", "r", "d", "u", "r", "a", "s">> ->
           << <<"v", "e", "r", "d", "u", "l", "e", "r", "i", "a">>,
              <<"v", "e", "r", "d", "u", "l", "e", "r", "í", "a">> >>
      [] p = <<"f", "r", "u", "t", "a">> ->
           << <<"v", "e", "r", "d", "u", "l", "e", "r", "i", "a">>,
              <<"v", "e", "r", "d", "u", "l", "e", "r", "í", "a">>,
              <<"f", "r", "u", "t", "a", "s">> >>
      [] p = <<"f", "r", "u", "t", "a", "s">> ->
           << <<"v", "e", "r", "d", "u", "l", "e", "r", "i", "a">>,
              <<"v", "e", "r", "d", "u", "l", "e", "r", "í", "a">> >>
      [] p = <<"o", "r", "g", "a", "n", "i", "c", "o">> ->
           << <<"v", "e", "r", "d", "u", "l", "e", "r", "i", "a">>,
              <<"v", "e", "r", "d", "u", "l", "e", "r", "í", "a">>,
              <<"o", "r", "g", "a", "n", "i", "c", "o">> >>
      [] p = <<"c", "o", "m", "e", "r">> ->
           << <<"g", "a", "s", "t", "r", "o", "n", "o", "m", "i", "a">>,
              <<"g", "a", "s", "t", "r", "o", "n", "o", "m", "í", "a">>,
              <<"r", "e", "s", "t", "a", "u", "r", "a", "n", "t", "e">> >>
      [] p = <<"c", "o", "m", "i", "d", "a">> ->
           << <<"g", "a", "s", "t", "r", "o", "n", "o", "m", "i", "a">>,
              <<"g", "a", "s", "t", "r", "o", "n", "o", "m", "í", "a">>,
              <<"r", "e", "s", "t", "a", "u", "r", "a", "n", "t", "e">> >>
      [] p = <<"c", "e", "n", "a", "r">> ->
           << <<"g", "a", "s", "t", "r", "o", "n", "o", "m", "i", "a">>,
              <<"g", "a", "s", "t", "r", "o", "n", "o", "m", "í", "a">>,
              <<"r", "e", "s", "t", "a", "u", "r", "a", "n", "t", "e">> >>
      [] p = <<"a", "l", "m", "o", "r", "z", "a", "r">> ->
           << <<"g", "a", "s", "t", "r", "o", "n", "o", "m", "i", "a">>,
              <<"g", "a", "s", "t", "r", "o", "n", "o", "m", "í", "a">>,
              <<"r", "e", "s", "t", "a", "u", "r", "a", "n", "t", "e">>,
              <<"a", "l", "m", "u", "e", "r", "z", "o">> >>
      [] p = <<"m", "o", "r", "f", "i">> ->
           << <<"g", "a", "s", "t", "r", "o", "n", "o", "m", "i", "a">>,
              <<"g", "a", "s", "t", "r", "o", "n", "o", "m", "í", "a">>,
              <<"r", "e", "s", "t", "a", "u", "r", "a", "n", "t", "e">> >>
      [] p = <<"p", "a", "r", "r", "i", "l", "l", "a">> ->
           << <<"p", "a", "r", "r", "i", "l", "l", "a">>,
              <<"r", "e", "s", "t", "a", "u", "r", "a", "n", "t", "e">>,
              <<"a", "s", "a", "d", "o">>,
              <<"c", "a", "r", "n", "e">> >>
      [] p = <<"p", "a", "s", "t", "a", "s">> ->
           << <<"r", "e", "s", "t", "a", "u", "r", "a", "n", "t", "e">>,
              <<"p", "a", "s", "t", "a", "s">> >>
      [] p = <<"m", "i", "l", "a", "n", "e", "s", "a">> ->
           << <<"r", "e", "s", "t", "a", "u", "r", "a", "n", "t", "e">>,
              <<"m", "i", "l", "a", "n", "e", "s", "a", "s">> >>
      [] p = <<"m", "i", "l", "a", "n", "e", "s", "a", "s">> ->
           << <<"r", "e", "s", "t", "a", "u", "r", "a", "n", "t", "e">> >>
      [] p = <<"b", "i", "r", "r", "a">> ->
           << <<"c", "e", "r", "v", "e", "c", "e", "r", "i", "a">>,
              <<"c", "e", "r", "v", "e", "c", "e", "r", "í", "a">>,
              <<"b", "a", "r">>,
              <<"c", "e", "r", "v", "e", "z", "a">> >>
      [] p = <<"c", "e", "r", "v", "e", "z", "a">> ->
           << <<"c", "e", "r", "v", "e", "c", "e", "r", "i", "a">>,
              <<"c", "e", "r", "v", "e", "c", "e", "r", "í", "a">>,
              <<"b", "a", "r">>,
              <<"c", "e", "r", "v", "e", "z", "a", " ", "a", "r", "t", "e", "s", "a", "n", "a", "l">> >>
      [] p = <<"t", "r", "a", "g", "o">> ->
           << <<"b", "a", "r">>,
              <<"c", "e", "r", "v", "e", "c", "e", "r", "i", "a">> >>
      [] p = <<"t", "r", "a", "g", "o", "s">> ->
           << <<"b", "a", "r">>,
              <<"c", "e", "r", "v", "e", "c", "e", "r", "i", "a">> >>
      [] p = <<"p", "i", "c", "a", "d", "a">> ->
           << <<"b", "a", "r">>,
              <<"c", "e", "r", "v", "e", "c", "e", "r", "i", "a">>,
              <<"p", "i", "c", "a", "d", "a", "s">> >>
      [] p = <<"p", "i", "c", "a", "d", "a", "s">> ->
           << <<"b", "a", "r">>,
              <<"c", "e", "r", "v", "e", "c", "e", "r", "i", "a">> >>
      [] p = <<"r", "e", "m", "e", "d", "i", "o">> ->
           << <<"f", "a", "r", "m", "a", "c", "i", "a">>,
              <<"m", "e", "d", "i", "c", "a", "m", "e", "n", "t", "o", "s">> >>
      [] p = <<"r", "e", "m", "e", "d", "i", "o", "s">> ->
           << <<"f", "a", "r", "m", "a", "c", "i", "a">>,
              <<"m", "e", "d", "i", "c", "a", "m", "e", "n", "t", "o", "s">> >>
      [] p = <<"m", "e", "d", "i", "c", "a", "m", "e", "n", "t", "o">> ->
           << <<"f", "a", "r", "m", "a", "c", "i", "a">>,
              <<"m", "e", "d", "i", "c", "a", "m", "e", "n", "t", "o", "s">> >>
      [] p = <<"m", "e", "d", "i", "c", "a", "m", "e", "n", "t", "o", "s">> ->
           << <<"f", "a", "r", "m", "a", "c", "i", "a">> >>
      [] p = <<"p", "a", "s", "t", "i", "l", "l", "a">> ->
           << <<"f", "a", "r", "m", "a", "c", "i", "a">>,
              <<"m", "e", "d", "i", "c", "a", "m", "e", "n", "t", "o", "s">> >>
      [] p = <<"p", "a", "s", "t", "i", "l", "l", "a", "s">> ->
           << <<"f", "a", "r", "m", "a", "c", "i", "a">>,
              <<"m", "e", "d", "i", "c", "a", "m", "e", "n", "t", "o", "s">> >>
      [] p = <<"p", "e", "r", "f", "u", "m", "e", "r", "i", "a">> ->
           << <<"f", "a", "r", "m", "a", "c", "i", "a">>,
              <<"f", "a", "r", "m", "a", "c", "i", "t", "y">>,
              <<"c", "o", "s", "m", "e", "t", "i", "c", "o", "s">> >>
      [] p = <<"c", "o", "s", "m", "e", "t", "i", "c", "o", "s">> ->
           << <<"f", "a", "r", "m", "a", "c", "i", "a">>,
              <<"f", "a", "r", "m", "a", "c", "i", "t", "y">>,
              <<"p", "e", "r", "f", "u", "m", "e", "r", "i", "a">> >>
      [] p = <<"o", "c", "u", "l", "i", "s", "t", "a">> ->
           << <<"o", "p", "t", "i", "c", "a">>,
              <<"ó", "p", "t", "i", "c", "a">>,
              <<"a", "n", "t", "e", "o", "j", "o", "s">>,
              <<"l", "e", "n", "t", "e", "s">> >>
      [] p = <<"a", "n", "t", "e", "o", "j", "o", "s">> ->
           << <<"o", "p", "t", "i", "c", "a">>,
              <<"ó", "p", "t", "i", "c", "a">> >>
      [] p = <<"l", "e", "n", "t", "e", "s">> ->
           << <<"o", "p", "t", "i", "c", "a">>,
              <<"ó", "p", "t", "i", "c", "a">> >>
      [] p = <<"v", "e", "t", "e", "r", "i", "n", "a", "r", "i", "o">> ->
           << <<"v", "e", "t", "e", "r", "i", "n", "a", "r", "i", "a">>,
              <<"m", "a", "s", "c", "o", "t", "a", "s">> >>
      [] p = <<"p", "e", "r", "r", "o">> ->
           << <<"v", "e", "t", "e", "r", "i", "n", "a", "r", "i", "a">>,
              <<"p", "e", "t", "s", "h", "o", "p">>,
              <<"p", "e", "t", " ", "s", "h", "o", "p">>,
              <<"m", "a", "s", "c", "o", "t", "a", "s">> >>
      [] p = <<"g", "a", "t", "o">> ->
           << <<"v", "e", "t", "e", "r", "i", "n", "a", "r", "i", "a">>,
              <<"p", "e", "t", "s", "h", "o", "p">>,
              <<"p", "e", "t", " ", "s", "h", "o", "p">>,
              <<"m", "a", "s", "c", "o", "t", "a", "s">> >>
      [] p = <<"m", "a", "s", "c", "o", "t", "a">> ->
           << <<"v", "e", "t", "e", "r", "i", "n", "a", "r", "i", "a">>,
              <<"p", "e", "t", "s", "h", "o", "p">>,
              <<"p", "e", "t", " ", "s", "h", "o", "p">>,
              <<"m", "a", "s", "c", "o", "t", "a", "s">> >>
      [] p = <<"m", "a", "s", "c", "o", "t", "a", "s">> ->
           << <<"v", "e", "t", "e", "r", "i", "n", "a", "r", "i", "a">>,
              <<"p", "e", "t", "s", "h", "o", "p">>,
              <<"p", "e", "t", " ", "s", "h", "o", "p">> >>
      [] p = <<"a", "l", "i", "m", "e", "n", "t", "o">> ->
           << <<"p", "e", "t", "s", "h", "o", "p">>,
              <<"p", "e", "t", " ", "s", "h", "o", "p">>,
              <<"v", "e", "t", "e", "r", "i", "n", "a", "r", "i", "a">> >>
      [] p = <<"p", "l", "o", "m", "e", "r", "o">> ->
           << <<"p", "l", "o", "m", "e", "r", "i", "a">>,
              <<"p", "l", "o", "m", "e", "r", "í", "a">> >>
      [] p = <<"c", "a", "ñ", "o">> ->
           << <<"p", "l", "o", "m", "e", "r", "i", "a">>,
              <<"p", "l", "o", "m", "e", "r", "í", "a">>,
              <<"p", "l", "o", "m", "e", "r", "o">> >>
      [] p = <<"c", "a", "ñ", "e", "r", "i", "a">> ->
           << <<"p", "l", "o", "m", "e", "r", "i", "a">>,
              <<"p", "l", "o", "m", "e", "r", "í", "a">>,
              <<"p", "l", "o", "m", "e", "r", "o">> >>
      [] p = <<"a", "g", "u", "a">> ->
           << <<"p", "l", "o", "m", "e", "r", "i", "a">>,
              <<"p", "l", "o", "m", "e", "r", "í", "a">>,
              <<"p", "l", "o", "m", "e", "r", "o">> >>
      [] p = <<"e", "l", "e", "c", "t", "r", "i", "c", "i", "s", "t", "a">> ->
           << <<"e", "l", "e", "c", "t", "r", "i", "c", "i", "d", "a", "d">>,
              <<"e", "l", "e", "c", "t", "r", "i", "c", "o">> >>
      [] p = <<"e", "n", "c", "h", "u", "f", "e">> ->
           << <<"e", "l", "e", "c", "t", "r", "i", "c", "i", "d", "a", "d">>,
              <<"e", "l", "e", "c", "t", "r", "i", "c", "i", "s", "t", "a">> >>
      [] p = <<"l", "u", "z">> ->
           << <<"e", "l", "e", "c", "t", "r", "i", "c", "i", "d", "a", "d">>,
              <<"e", "l", "e", "c", "t", "r", "i", "c", "i", "s", "t", "a">> >>
      [] p = <<"c", "o", "r", "t", "o", "c", "i", "r", "c", "u", "i", "t", "o">> ->
           << <<"e", "l", "e", "c", "t", "r", "i", "c", "i", "d", "a", "d">>,
              <<"e", "l", "e", "c", "t", "r", "i", "c", "i", "s", "t", "a">> >>
      [] p = <<"a", "l", "b", "a", "ñ", "i", "l">> ->
           << <<"a", "l", "b", "a", "ñ", "i", "l", "e", "r", "i", "a">>,
              <<"a", "l", "b", "a", "ñ", "i", "l", "e", "r", "í", "a">>,
              <<"c", "o", "n", "s", "t", "r", "u", "c", "c", "i", "o", "n">> >>
      [] p = <<"o", "b", "r", "a">> ->
           << <<"a", "l", "b", "a", "ñ", "i", "l", "e", "r", "i", "a">>,
              <<"a", "l", "b", "a", "ñ", "i", "l", "e", "r", "í", "a">>,
              <<"c", "o", "n", "s", "t", "r", "u", "c", "c", "i", "o", "n">> >>
      [] p = <<"r", "e", "f", "o", "r", "m", "a">> ->
           << <<"a", "l", "b", "a", "ñ", "i", "l", "e", "r", "i", "a">>,
              <<"a", "l", "b", "a", "ñ", "i", "l", "e", "r", "í", "a">>,
              <<"c", "o", "n", "s", "t", "r", "u", "c", "c", "i", "o", "n">> >>
      [] p = <<"c", "o", "n", "s", "t", "r", "u", "c", "c", "i", "o", "n">> ->
           << <<"a", "l", "b", "a", "ñ", "i", "l", "e", "r", "i", "a">>,
              <<"a", "l", "b", "a", "ñ", "i", "l", "e", "r", "í", "a">> >>
      [] p = <<"l", "l", "a", "v", "e">> ->
           << <<"c", "e", "r", "r", "a", "j", "e", "r", "i", "a">>,
              <<"c", "e", "r", "r", "a", "j", "e", "r", "í", "a">>,
              <<"c", "e", "r", "r", "a", "j", "e", "r", "o">> >>
      [] p = <<"c", "e", "r", "r", "a", "d", "u", "r", "a">> ->
           << <<"c", "e", "r", "r", "a", "j", "e", "r", "i", "a">>,
              <<"c", "e", "r", "r", "a", "j", "e", "r", "í", "a">>,
              <<"c", "e", "r", "r", "a", "j", "e", "r", "o">> >>
      [] p = <<"c", "e", "r", "r", "a", "j", "e", "r", "o">> ->
           << <<"c", "e", "r", "r", "a", "j", "e", "r", "i", "a">>,
              <<"c", "e", "r", "r", "a", "j", "e", "r", "í", "a">> >>
      [] p = <<"p", "i", "n", "t", "a", "r">> ->
           << <<"p", "i", "n", "t", "u", "r", "a">>,
              <<"p", "i", "n", "t", "o", "r">> >>
      [] p = <<"p", "i", "n", "t", "o", "r">> ->
           << <<"p", "i", "n", "t", "u", "r", "a">> >>
      [] p = <<"p", "a", "s", "t", "o">> ->
           << <<"j", "a", "r", "d", "i", "n", "e", "r", "i", "a">>,
              <<"j", "a", "r", "d", "i", "n", "e", "r", "í", "a">>,
              <<"j", "a", "r", "d", "i", "n", "e", "r", "o">> >>
      [] p = <<"j", "a", "r", "d", "i", "n">> ->
           << <<"j", "a", "r", "d", "i", "n", "e", "r", "i", "a">>,
              <<"j", "a", "r", "d", "i", "n", "e", "r", "í", "a">>,
              <<"j", "a", "r", "d", "i", "n", "e", "r", "o">> >>
      [] p = <<"p", "o", "d", "a">> ->
           << <<"j", "a", "r", "d", "i", "n", "e", "r", "i", "a">>,
              <<"j", "a", "r", "d", "i", "n", "e", "r", "í", "a">>,
              <<"j", "a", "r", "d", "i", "n", "e", "r", "o">> >>
      [] p = <<"j", "a", "r", "d", "i", "n", "e", "r", "o">> ->
           << <<"j", "a", "r", "d", "i", "n", "e", "r", "i", "a">>,
              <<"j", "a", "r", "d", "i", "n", "e", "r", "í", "a">> >>
      [] p = <<"g", "a", "s">> ->
           << <<"g", "a", "s", "i", "s", "t", "a">> >>
      [] p = <<"e", "s", "t", "u", "f", "a">> ->
           << <<"g", "a", "s", "i", "s", "t", "a">> >>
      [] p = <<"c", "a", "l", "e", "f", "o", "n">> ->
           << <<"g", "a", "s", "i", "s", "t", "a">>,
              <<"p", "l", "o", "m", "e", "r", "i", "a">> >>
      [] p = <<"c", "a", "l", "e", "f", "a", "c", "c", "i", "o", "n">> ->
           << <<"g", "a", "s", "i", "s", "t", "a">> >>
      [] p = <<"a", "i", "r", "e">> ->
           << <<"a", "i", "r", "e", " ", "a", "c", "o", "n", "d", "i", "c", "i", "o", "n", "a", "d", "o">> >>
      [] p = <<"s", "p", "l", "i", "t">> ->
           << <<"a", "i", "r", "e", " ", "a", "c", "o", "n", "d", "i", "c", "i", "o", "n", "a", "d", "o">> >>
      [] p = <<"a", "c", "o", "n", "d", "i", "c", "i", "o", "n", "a", "d", "o">> ->
           << <<"a", "i", "r", "e", " ", "a", "c", "o", "n", "d", "i", "c", "i", "o", "n", "a", "d", "o">> >>
      [] p = <<"m", "u", "d", "a", "n", "z", "a">> ->
           << <<"f", "l", "e", "t", "e">>,
              <<"f", "l", "e", "t", "e", "s">>,
              <<"m", "u", "d", "a", "n", "z", "a">> >>
      [] p = <<"m", "u", "d", "a", "n", "z", "a", "s">> ->
           << <<"f", "l", "e", "t", "e">>,
              <<"f", "l", "e", "t", "e", "s">> >>
      [] p = <<"f", "l", "e", "t", "e">> ->
           << <<"f", "l", "e", "t", "e", "s">>,
              <<"m", "u", "d", "a", "n", "z", "a">> >>
      [] p = <<"c", "o", "c", "a">> ->
           << <<"k", "i", "o", "s", "c", "o">>,
              <<"b", "e", "b", "i", "d", "a", "s">> >>
      [] p = <<"g", "o", "l", "o", "s", "i", "n", "a", "s">> ->
           << <<"k", "i", "o", "s", "c", "o">> >>
      [] p = <<"c", "i", "g", "a", "r", "r", "i", "l", "l", "o", "s">> ->
           << <<"k", "i", "o", "s", "c", "o">> >>
      [] p = <<"s", "n", "a", "c", "k", "s">> ->
           << <<"k", "i", "o", "s", "c", "o">> >>
      [] p = <<"g", "a", "l", "l", "e", "t", "i", "t", "a", "s">> ->
           << <<"k", "i", "o", "s", "c", "o">>,
              <<"a", "l", "m", "a", "c", "e", "n">> >>
      [] p = <<"b", "e", "b", "i", "d", "a">> ->
           << <<"k", "i", "o", "s", "c", "o">>,
              <<"b", "e", "b", "i", "d", "a", "s">> >>
      [] p = <<"b", "e", "b", "i", "d", "a", "s">> ->
           << <<"k", "i", "o", "s", "c", "o">> >>
      [] p = <<"f", "e", "r", "r", "e", "t", "e", "r", "i", "a">> ->
           << <<"f", "e", "r", "r", "e", "t", "e", "r", "i", "a">>,
              <<"h", "e", "r", "r", "a", "m", "i", "e", "n", "t", "a", "s">> >>
      [] p = <<"h", "e", "r", "r", "a", "m", "i", "e", "n", "t", "a">> ->
           << <<"f", "e", "r", "r", "e", "t", "e", "r", "i", "a">>,
              <<"h", "e", "r", "r", "a", "m", "i", "e", "n", "t", "a", "s">> >>
      [] p = <<"h", "e", "r", "r", "a", "m", "i", "e", "n", "t", "a", "s">> ->
           << <<"f", "e", "r", "r", "e", "t", "e", "r", "i", "a">> >>
      [] p = <<"t", "o", "r", "n", "i", "l", "l", "o">> ->
           << <<"f", "e", "r", "r", "e", "t", "e", "r", "i", "a">>,
              <<"t", "o", "r", "n", "i", "l", "l", "o", "s">> >>
      [] p = <<"t", "o", "r", "n", "i", "l", "l", "o", "s">> ->
           << <<"f", "e", "r", "r", "e", "t", "e", "r", "i", "a">> >>
      [] p = <<"c", "l", "a", "v", "o">> ->
           << <<"f", "e", "r", "r", "e", "t", "e", "r", "i", "a">> >>
      [] p = <<"c", "l", "a", "v", "o", "s">> ->
           << <<"f", "e", "r", "r", "e", "t", "e", "r", "i", "a">> >>
      [] p = <<"p", "i", "n", "t", "u", "r", "a">> ->
           << <<"f", "e", "r", "r", "e", "t", "e", "r", "i", "a">>,
              <<"p", "i", "n", "t", "u", "r", "a">> >>
      [] p = <<"m", "a", "t", "e", "r", "i", "a", "l", "e", "s">> ->
           << <<"f", "e", "r", "r", "e", "t", "e", "r", "i", "a">>,
              <<"c", "o", "n", "s", "t", "r", "u", "c", "c", "i", "o", "n">>,
              <<"c", "o", "r", "r", "a", "l", "o", "n">> >>
      [] p = <<"c", "o", "r", "r", "a", "l", "o", "n">> ->
           << <<"f", "e", "r", "r", "e", "t", "e", "r", "i", "a">>,
              <<"c", "o", "n", "s", "t", "r", "u", "c", "c", "i", "o", "n">>,
              <<"m", "a", "t", "e", "r", "i", "a", "l", "e", "s">> >>
      [] p = <<"a", "r", "e", "n", "a">> ->
           << <<"f", "e", "r", "r", "e", "t", "e", "r", "i", "a">>,
              <<"c", "o", "n", "s", "t", "r", "u", "c", "c", "i", "o", "n">>,
              <<"m", "a", "t", "e", "r", "i", "a", "l", "e", "s">> >>
      [] p = <<"g", "i", "m", "n", "a", "s", "i", "o">> ->
           << <<"g", "i", "m", "n", "a", "s", "i", "o">>,
              <<"f", "i", "t", "n", "e", "s", "s">>,
              <<"m", "u", "s", "c", "u", "l", "a", "c", "i", "o", "n">> >>
      [] p = <<"g", "y", "m">> ->
           << <<"g", "i", "m", "n", "a", "s", "i", "o">>,
              <<"f", "i", "t", "n", "e", "s", "s">>,
              <<"m", "u", "s", "c", "u", "l", "a", "c", "i", "o", "n">> >>
      [] p = <<"c", "r", "o", "s", "s", "f", "i", "t">> ->
           << <<"c", "r", "o", "s", "s", "f", "i", "t">>,
              <<"f", "u", "n", "c", "i", "o", "n", "a", "l">>,
              <<"g", "i", "m", "n", "a", "s", "i", "o">> >>
      [] p = <<"e", "n", "t", "r", "e", "n", "a", "r">> ->
           << <<"g", "i", "m", "n", "a", "s", "i", "o">>,
              <<"f", "i", "t", "n", "e", "s", "s">>,
              <<"c", "r", "o", "s", "s", "f", "i", "t">> >>
      [] p = <<"s", "p", "i", "n", "n", "i", "n", "g">> ->
           << <<"g", "i", "m", "n", "a", "s", "i", "o">>,
              <<"s", "p", "i", "n", "n", "i", "n", "g">> >>
      [] p = <<"y", "o", "g", "a">> ->
           << <<"g", "i", "m", "n", "a", "s", "i", "o">>,
              <<"y", "o", "g", "a">> >>
      [] p = <<"p", "i", "l", "e", "t", "a">> ->
           << <<"g", "i", "m", "n", "a", "s", "i", "o">>,
              <<"p", "i", "l", "e", "t", "a">>,
              <<"n", "a", "t", "a", "c", "i", "o", "n">> >>
      [] p = <<"n", "a", "t", "a", "c", "i", "o", "n">> ->
           << <<"g", "i", "m", "n", "a", "s", "i", "o">>,
              <<"p", "i", "l", "e", "t", "a">> >>
      [] p = <<"p", "a", "d", "d", "l", "e">> ->
           << <<"p", "a", "d", "d", "l", "e">>,
              <<"t", "e", "n", "i", "s">> >>
      [] p = <<"t", "e", "n", "i", "s">> ->
           << <<"t", "e", "n", "i", "s">>,
              <<"p", "a", "d", "d", "l", "e">> >>
      [] p = <<"p", "e", "l", "u", "q", "u", "e", "r", "i", "a">> ->
           << <<"p", "e", "l", "u", "q", "u", "e", "r", "i", "a">>,
              <<"p", "e", "l", "u", "q", "u", "e", "r", "í", "a">>,
              <<"c", "o", "r", "t", "e">> >>
      [] p = <<"p", "e", "l", "u", "q", "u", "e", "r", "o">> ->
           << <<"p", "e", "l", "u", "q", "u", "e", "r", "i", "a">>,
              <<"p", "e", "l", "u", "q", "u", "e", "r", "í", "a">> >>
      [] p = <<"c", "o", "r", "t", "e">> ->
           << <<"p", "e", "l", "u", "q", "u", "e", "r", "i", "a">>,
              <<"p", "e", "l", "u", "q", "u", "e", "r", "í", "a">>,
              <<"b", "a", "r", "b", "e", "r", "i", "a">>,
              <<"b", "a", "r", "b", "e", "r", "í", "a">> >>
      [] p = <<"t", "i", "n", "t", "u", "r", "a">> ->
           << <<"p", "e", "l", "u", "q", "u", "e", "r", "i", "a">>,
              <<"p", "e", "l", "u", "q", "u", "e", "r", "í", "a">>,
              <<"c", "o", "l", "o", "r">> >>
      [] p = <<"b", "a", "r", "b", "e", "r", "i", "a">> ->
           << <<"b", "a", "r", "b", "e", "r", "i", "a">>,
              <<"b", "a", "r", "b", "e", "r", "í", "a">>,
              <<"b", "a", "r", "b", "a">> >>
      [] p = <<"b", "a", "r", "b", "e", "r", "o">> ->
           << <<"b", "a", "r", "b", "e", "r", "i", "a">>,
              <<"b", "a", "r", "b", "e", "r", "í", "a">>,
              <<"b", "a", "r", "b", "a">> >>
      [] p = <<"b", "a", "r", "b", "a">> ->
           << <<"b", "a", "r", "b", "e", "r", "i", "a">>,
              <<"b", "a", "r", "b", "e", "r", "í", "a">> >>
      [] p = <<"u", "ñ", "a", "s">> ->
           << <<"e", "s", "t", "e", "t", "i", "c", "a">>,
              <<"e", "s", "t", "é", "t", "i", "c", "a">> >>
      [] p = <<"d", "e", "p", "i", "l", "a", "c", "i", "o", "n">> ->
           << <<"e", "s", "t", "e", "t", "i", "c", "a">>,
              <<"e", "s", "t", "é", "t", "i", "c", "a">> >>
      [] p = <<"l", "a", "v", "a", "d", "e", "r", "o">> ->
           << <<"l", "a", "v", "a", "d", "e", "r", "o">>,
              <<"l", "a", "v", "a", "n", "d", "e", "r", "i", "a">> >>
      [] p = <<"l", "a", "v", "a", "n", "d", "e", "r", "i", "a">> ->
           << <<"l", "a", "v", "a", "d", "e", "r", "o">>,
              <<"l", "a", "v", "a", "n", "d", "e", "r", "i", "a">> >>
      [] p = <<"l", "a", "v", "a", "r">> ->
           << <<"l", "a", "v", "a", "d", "e", "r", "o">>,
              <<"l", "a", "v", "a", "n", "d", "e", "r", "i", "a">> >>
      [] p = <<"a", "u", "t", "o">> ->
           << <<"m", "e", "c", "a", "n", "i", "c", "o">>,
              <<"m", "e", "c", "á", "n", "i", "c", "o">>,
              <<"t", "a", "l", "l", "e", "r">> >>
      [] p = <<"m", "e", "c", "a", "n", "i", "c", "o">> ->
           << <<"m", "e", "c", "a", "n", "i", "c", "o">>,
              <<"m", "e", "c", "á", "n", "i", "c", "o">>,
              <<"t", "a", "l", "l", "e", "r">> >>
      [] p = <<"r", "u", "e", "d", "a">> ->
           << <<"g", "o", "m", "e", "r", "i", "a">>,
              <<"g", "o", "m", "e", "r", "í", "a">> >>
      [] p = <<"g", "o", "m", "a">> ->
           << <<"g", "o", "m", "e", "r", "i", "a">>,
              <<"g", "o", "m", "e", "r", "í", "a">> >>
      [] p = <<"p", "i", "n", "c", "h", "a", "d", "a">> ->
           << <<"g", "o", "m", "e", "r", "i", "a">>,
              <<"g", "o", "m", "e", "r", "í", "a">> >>
      [] p = <<"n", "a", "f", "t", "a">> ->
           << <<"e", "s", "t", "a", "c", "i", "o", "n", " ", "d", "e", " ", "s", "e", "r", "v", "i", "c", "i", "o">>,
              <<"y", "p", "f">>,
              <<"s", "h", "e", "l", "l">> >>
      [] OTHER -> << >>

\* lines 1209-1218: _REFINAMIENTO_KEYWORDS
REFINAMIENTO_KEYWORDS ==
    { <<"b", "a", "r", "a", "t", "o">>,
      <<"b", "a", "r", "a", "t", "o", "s">>,
      <<"b", "a", "r", "a", "t", "a">>,
      <<"b", "a", "r", "a", "t", "a", "s">>,
      <<"e", "c", "o", "n", "o", "m", "i", "c", "o">>,
      <<"e", "c", "o", "n", "o", "m", "i", "c", "a">>,
      <<"c", "a", "r", "o">>,
      <<"c", "a", "r", "o", "s">>,
      <<"c", "a", "r", "a">>,
      <<"c", "a", "r", "a", "s">>,
      <<"p", "r", "e", "m", "i", "u", "m">>,
      <<"c", "e", "r", "c", "a">>,
      <<"c", "e", "r", "c", "a", "n", "o">>,
      <<"c", "e", "r", "c", "a", "n", "a">>,
      <<"c", "e", "r", "c", "a", "n", "o", "s">>,
      <<"c", "e", "r", "c", "a", "n", "a", "s">>,
      <<"l", "e", "j", "o", "s">>,
      <<"o", "t", "r", "o">>,
      <<"o", "t", "r", "a">>,
      <<"o", "t", "r", "o", "s">>,
      <<"o", "t", "r", "a", "s">>,
      <<"d", "i", "s", "t", "i", "n", "t", "o">>,
      <<"d", "i", "s", "t", "i", "n", "t", "a">>,
      <<"m", "e", "j", "o", "r">>,
      <<"m", "e", "j", "o", "r", "e", "s">>,
      <<"m", "a", "s">>,
      <<"m", "e", "n", "o", "s">>,
      <<"g", "r", "a", "n", "d", "e">>,
      <<"c", "h", "i", "c", "o">>,
      <<"l", "i", "n", "d", "o">>,
      <<"l", "i", "n", "d", "a">>,
      <<"t", "r", "a", "n", "q", "u", "i", "l", "o">>,
      <<"t", "r", "a", "n", "q", "u", "i", "l", "a">>,
      <<"a", "i", "r", "e">>,
      <<"l", "i", "b", "r", "e">>,
      <<"t", "e", "r", "r", "a", "z", "a">>,
      <<"p", "a", "t", "i", "o">>,
      <<"a", "f", "u", "e", "r", "a">>,
      <<"d", "e", "l", "i", "v", "e", "r", "y">>,
      <<"l", "l", "e", "v", "a", "r">>,
      <<"r", "a", "p", "i", "d", "o">>,
      <<"r", "a", "p", "i", "d", "a">> }

\* lines 776-783: _STOPWORDS
STOPWORDS ==
    { <<"h", "a", "y">>,
      <<"b", "u", "s", "c", "o">>,
      <<"q", "u", "i", "e", "r", "o">>,
      <<"n", "e", "c", "e", "s", "i", "t", "o">>,
      <<"m", "e">>,
      <<"u", "n">>,
      <<"u", "n", "a">>,
      <<"u", "n", "o", "s">>,
      <<"u", "n", "a", "s">>,
      <<"e", "n">>,
      <<"d", "e">>,
      <<"q", "u", "e">>,
      <<"p", "o", "r">>,
      <<"p", "a", "r", "a">>,
      <<"l", "o", "s">>,
      <<"l", "a", "s">>,
      <<"e", "l">>,
      <<"l", "a">>,
      <<"l", "o">>,
      <<"c", "o", "n">>,
      <<"s", "i", "n">>,
      <<"d", "e", "l">>,
      <<"a", "l">>,
      <<"y">>,
      <<"o">>,
      <<"a">>,
      <<"e", "s">>,
      <<"s", "i">>,
      <<"n", "o">>,
      <<"m", "a", "s">>,
      <<"m", "u", "y">>,
      <<"b", "i", "e", "n">>,
      <<"c", "o", "m", "o">>,
      <<"d", "o", "n", "d", "e">>,
      <<"c", "e", "r", "c", "a">>,
      <<"a", "l", "g", "u", "n">>,
      <<"a", "l", "g", "u", "n", "o">>,
      <<"a", "l", "g", "u", "n", "a">>,
      <<"t", "i", "e", "n", "e">>,
      <<"t", "e", "n", "e", "s">>,
      <<"a", "h", "o", "r", "a">>,
      <<"a", "b", "i", "e", "r", "t", "o">>,
      <<"a", "b", "i", "e", "r", "t", "a">>,
      <<"a", "b", "i", "e", "r", "t", "o", "s">>,
      <<"a", "b", "i", "e", "r", "t", "a", "s">>,
      <<"h", "o", "y">>,
      <<"b", "u", "e", "n">>,
      <<"b", "u", "e", "n", "a", "s">>,
      <<"b", "u", "e", "n", "a">>,
      <<"b", "u", "e", "n", "o", "s">> }

RECURSIVE Palabras(_)
\* str.split(): the maximal runs of characters that are not spaces
Palabras(s) ==
    LET t == LStrip(s)
        is == {i \in 1..Len(t) : EsEspacio(t[i])}
    IN IF t = << >> THEN << >>
       ELSE IF is = {} THEN << t >>
       ELSE << SubSeq(t, 1, Minimo(is) - 1) >>
                \o Palabras(SubSeq(t, Minimo(is), Len(t)))

\* lines 1191-1227: _detectar_refinamiento
detectar_refinamiento(mensaje) ==
    LET palabras == Palabras(normalizar_texto(mensaje))
    IN IF Len(palabras) > 6 THEN FALSE
       ELSE IF \E i \in 1..Len(palabras) : SINONIMOS(palabras[i]) # << >>
       THEN FALSE
       ELSE IF \E i \in 1..Len(palabras) : palabras[i] \in REFINAMIENTO_KEYWORDS
       THEN TRUE
       ELSE Len(palabras) <= 2

\* lines 584-590: _ZONAS_MAP, in dict order
ZONAS_MAP ==
    << [clave |-> <<"c", "i", "t", "y", " ", "b", "e", "l", "l">>,
        zona |-> <<"C", "i", "t", "y", " ", "B", "e", "l", "l">>],
       [clave |-> <<"c", "i", "t", "y", "b", "e", "l", "l">>,
        zona |-> <<"C", "i", "t", "y", " ", "B", "e", "l", "l">>],
       [clave |-> <<"g", "o", "n", "n", "e", "t">>,
        zona |-> <<"G", "o", "n", "n", "e", "t">>],
       [clave |-> <<"v", "i", "l", "l", "a", " ", "e", "l", "i", "s", "a">>,
        zona |-> <<"V", "i", "l", "l", "a", " ", "E", "l", "i", "s", "a">>],
       [clave |-> <<"v", "i", "l", "l", "a", "e", "l", "i", "s", "a">>,
        zona |-> <<"V", "i", "l", "l", "a", " ", "E", "l", "i", "s", "a">>] >>

\* lines 593-598: detectar_zona, NoEntry for None
detectar_zona(texto) ==
    LET t == normalizar_texto(texto)
        is == {i \in 1..Len(ZONAS_MAP) : Contiene(t, ZONAS_MAP[i].clave)}
    IN IF is = {} THEN NoEntry ELSE [zona |-> ZONAS_MAP[Minimo(is)].zona]

\* ------------------------------------------------------ the local filter
\* A catalog entry is a dict: a function from its keys to their values.
\* dict.get(k, default)
Get(c, k, default) == IF k \in DOMAIN c THEN c[k] ELSE default

\* the dict c with c[k] = v
Con(c, k, v) == [x \in DOMAIN c \cup {k} |-> IF x = k THEN v ELSE c[x]]

\* the dict c after c.pop(k, None)
Sin(c, k) == [x \in DOMAIN c \ {k} |-> c[x]]

\* lines 402-407 of expandir_consulta: the set `extras`
Extras(consulta) ==
    LET palabras == Palabras(normalizar_texto(consulta))
    IN UNION { { normalizar_texto(SINONIMOS(palabras[i])[j]) :
                     j \in 1..Len(SINONIMOS(palabras[i])) } :
               i \in 1..Len(palabras) }

\* the elements of a sequence
Elementos(s) == {s[i] : i \in 1..Len(s)}

\* lines 803-808: the words of normalizar_texto(expandir_consulta(consulta)),
\* that is of consulta followed by its extras, that are not stop-words and
\* have more than 2 characters
PalabrasFiltro(consulta) ==
    LET todas == Elementos(Palabras(normalizar_texto(consulta)))
                     \cup UNION {Elementos(Palabras(e)) : e \in Extras(consulta)}
    IN {p \in todas : p \notin STOPWORDS /\ Len(p) > 2}

\* _PESO_CAMPO with the weights of nombre and tags exchanged
PESO_CAMPO_Roto ==
    << [campo |-> "nombre", peso |-> 1], [campo |-> "categoria", peso |-> 3],
       [campo |-> "rubro", peso |-> 3], [campo |-> "tags", peso |-> 4],
       [campo |-> "zona", peso |-> 0] >>

\* lines 786-792: _PESO_CAMPO, in dict order
PESO_CAMPO ==
    << [campo |-> "nombre", peso |-> 4], [campo |-> "categoria", peso |-> 3],
       [campo |-> "rubro", peso |-> 3], [campo |-> "tags", peso |-> 1],
       [campo |-> "zona", peso |-> 0] >>

\* word.startswith(p)
EmpiezaCon(word, p) == Len(p) <= Len(word) /\ SubSeq(word, 1, Len(p)) = p

\* the two tests of lines 825 and 828 in the opposite order
AporteRoto(valor, peso, p) ==
    IF Len(p) >= 4 /\ \E w \in Elementos(Palabras(valor)) : EmpiezaCon(w, p)
    THEN peso
    ELSE IF Contiene(valor, p) THEN 2 * peso
    ELSE 0

\* lines 823-830: what word p adds to the score for a field of value valor
\* and weight peso, in halves of a point (the code adds peso or peso * 0.5)
Aporte(valor, peso, p) ==
    IF Contiene(valor, p) THEN 2 * peso
    ELSE IF Len(p) >= 4 /\ \E w \in Elementos(Palabras(valor)) : EmpiezaCon(w, p)
    THEN peso
    ELSE 0

RECURSIVE Suma(_, _, _)
\* the sum of Aporte(valor, peso, p) over the words p of the set ps
Suma(valor, peso, ps) ==
    IF ps = {} THEN 0
    ELSE LET p == CHOOSE x \in ps : TRUE
         IN Aporte(valor, peso, p) + Suma(valor, peso, ps \ {p})

RECURSIVE PuntajeCampos(_, _, _)
\* lines 818-830: the score of entry c over the fields from the n-th on
PuntajeCampos(c, palabras, n) ==
    IF n > Len(PESO_CAMPO) THEN 0
    ELSE LET valor == normalizar_texto(Get(c, PESO_CAMPO[n].campo, << >>))
         IN (IF valor = << >> THEN 0
             ELSE Suma(valor, PESO_CAMPO[n].peso, palabras))
            + PuntajeCampos(c, palabras, n + 1)

\* lines 816-836: the score of entry c, in halves of a point; zona is
\* NoEntry for None
Puntaje(c, palabras, zona) ==
    PuntajeCampos(c, palabras, 1)
    + (IF zona # NoEntry /\ zona.zona # << >>
          /\ Contiene(normalizar_texto(Get(c, "zona", << >>)),
                      normalizar_texto(zona.zona))
       THEN 10 ELSE 0)

\* the list left as it is, without the sort of line 841
OrdenarPorPuntajeRoto(is, pj) == is

RECURSIVE OrdenarPorPuntaje(_, _)
\* line 841: scored.sort(key=score, reverse=True): the indices is (in catalog
\* order) by descending score pj, equal scores keeping their order
OrdenarPorPuntaje(is, pj) ==
    IF is = << >> THEN << >>
    ELSE LET n == Minimo({k \in 1..Len(is) :
                            \A m \in 1..Len(is) : pj[is[k]] >= pj[is[m]]})
         IN << is[n] >> \o OrdenarPorPuntaje(Quitar(is, n), pj)

\* lines 795-849: filtrar_json_local on the catalog: the positions in the
\* catalog of the entries it returns (the list holds the very dicts of
\* COMERCIOS_COMPACTO, line 842)
filtrar_json_local(catalogo, consulta, zona, top_k) ==
    LET palabras == PalabrasFiltro(consulta)
        pj == [i \in 1..Len(catalogo) |-> Puntaje(catalogo[i], palabras, zona)]
        scored == SelectSeq([i \in 1..Len(catalogo) |-> i], LAMBDA i : pj[i] > 0)
        orden == OrdenarPorPuntaje(scored, pj)
    IN IF palabras = {} /\ (zona = NoEntry \/ zona.zona = << >>) THEN << >>
       ELSE SubSeq(orden, 1, IF Len(orden) < top_k THEN Len(orden) ELSE top_k)

\* --------------------------------------------------------------- retrieval
\* line 852: the default top_k of buscar_relevantes and filtrar_json_local
TOP_K == 6

\* rows the search call of lines 863-867 may return
FILAS ==
    << [nombre |-> <<"K", "i", "o", "s", "c", "o">>, categoria |-> <<"k", "i", "o", "s", "c", "o">>,
        zona |-> <<"G", "o", "n", "n", "e", "t">>, horarios |-> H_SabMedia,
        lat |-> -3492300, lon |-> -5795600, id |-> 7,
        embedding |-> "e", similarity |-> 9] >>

\* what the backend does in one call: the embedding request fails, the
\* search call fails, or the search call returns rows (maybe none)
RespuestasBackend ==
    { [tipo |-> "falla_embedding"], [tipo |-> "falla_rpc"],
      [tipo |-> "filas", data |-> << >>], [tipo |-> "filas", data |-> FILAS] }

\* a reference to the i-th dict of COMERCIOS_COMPACTO
EnCatalogo(i) == [ref |-> "catalogo", i |-> i]

\* a dict of its own, built from a row of the backend
Propio(c) == [ref |-> "propio", dict |-> c]

\* lines 852-880: buscar_relevantes: the list it returns
buscar_relevantes_Roto(supabase, catalogo, consulta, zona, top_k, backend) ==
    IF backend.tipo = "filas"
    THEN [n \in 1..Len(backend.data) |->
              Propio(Sin(Sin(backend.data[n], "embedding"), "similarity"))]
    ELSE << >>
buscar_relevantes(supabase, catalogo, consulta, zona, top_k, backend) ==
    LET local == filtrar_json_local(catalogo, consulta, zona, top_k)
        fallback == [n \in 1..Len(local) |-> EnCatalogo(local[n])]
    IN IF ~supabase THEN fallback
       ELSE IF backend.tipo = "filas" /\ backend.data # << >>
       THEN [n \in 1..Len(backend.data) |->
                 Propio(Sin(Sin(backend.data[n], "embedding"), "similarity"))]
       ELSE fallback

\* queries: "Pan", "pizza gonnet", "barato", "plomero ya"
ConsultasRag ==
    { <<"P", "a", "n">>,
      <<"p", "i", "z", "z", "a", " ", "g", "o", "n", "n", "e", "t">>,
      <<"b", "a", "r", "a", "t", "o">>,
      <<"p", "l", "o", "m", "e", "r", "o", " ", "y", "a">> }

\* the arguments: the configuration, the query, the zone, top_k and what
\* the backend does
InitRecuperar ==
    /\ entrada \in [supabase : BOOLEAN, consulta : ConsultasRag,
                    zona : {NoEntry, [zona |-> <<"G", "o", "n", "n", "e", "t">>]},
                    top_k : {1, TOP_K}, backend : RespuestasBackend]
    /\ salida = NoEntry
    /\ InitVarsCola /\ InitVarsCache /\ InitVarsMemoria /\ InitVarsMensajes
    /\ InitVarsTurno(entrada.supabase)

\* lines 852-880: the call buscar_relevantes(consulta, zona, top_k)
Recuperar ==
    /\ salida = NoEntry
    /\ salida' = [relevantes |->
           buscar_relevantes(entrada.supabase, COMERCIOS_COMPACTO,
                             entrada.consulta, entrada.zona, entrada.top_k,
                             entrada.backend)]
    /\ UNCHANGED << entrada, vars_programa >>

NextRecuperar == Recuperar

SpecRecuperar == InitRecuperar /\ [][NextRecuperar]_vars

\* the list the local filter gives for the arguments of the call
LocalDeEntrada ==
    LET local == filtrar_json_local(COMERCIOS_COMPACTO,
                                    entrada.consulta, entrada.zona, entrada.top_k)
    IN [n \in 1..Len(local) |-> EnCatalogo(local[n])]

\* C16: buscar_relevantes always returns a list: without a backend it is
\* the local filter's result; with a backend, when the search returns no
\* rows or the embedding request or the search call fails, it is the local
\* filter's result for the same query, zone and top_k.
C16_Fallback ==
    salida # NoEntry =>
        /\ ~entrada.supabase => salida.relevantes = LocalDeEntrada
        /\ (/\ entrada.supabase
            /\ \/ entrada.backend.tipo \in {"falla_embedding", "falla_rpc"}
               \/ entrada.backend.data = << >>)
               => salida.relevantes = LocalDeEntrada

\* without a backend the filter found two entries although the backend
\* would have failed
C16_Witness ==
    /\ salida # NoEntry
    /\ ~entrada.supabase
    /\ entrada.backend.tipo = "falla_rpc"
    /\ Len(salida.relevantes) = 2

\* ------------------------------------------ the turns of obtener_respuesta
\* The program runs without Supabase and without Redis: the catalog is in
\* memory and buscar_relevantes returns at line 855 without suspending.
\* Every caller awaits send_action or reply_text just before it calls
\* obtener_respuesta (lines 986, 1583, 1616, 1678), so the call begins in a
\* step of its own.  With skip_log=True, or a text that starts with "Repetí
\* la búsqueda", the call has one await, the generation call of line 1365:
\* its first step is lines 1231-1365, its second step lines 1366-1400.
\* `async with _cache_lock` (line 1385) does not suspend: no task holds the
\* lock across an await.
\* messages kept in a history, scaled down from 10 (bot.py:107)
MAX_HISTORIAL_MENSAJES == 2
\* handlers started in one behaviour
MaxTurnos == 2
\* minutes the clock advances in one step
PasoReloj == 60
\* last value of the clock in the study of turns
MaxRelojSesion == 60
\* line 1242: timedelta(hours=1), in minutes
VENTANA_HISTORIAL == 60

\* texts of a turn: "pan", "mas cerca"
Mensajes ==
    { <<"p", "a", "n">>, <<"m", "a", "s", " ", "c", "e", "r", "c", "a">> }

\* line 1584: the text "Repetí la búsqueda de: " put before the last query
REPETIR ==
    <<"R", "e", "p", "e", "t", "í", " ", "l", "a", " ", "b", "ú", "s", "q",
      "u", "e", "d", "a", " ", "d", "e", ":", " ">>

\* the location a user shares (loc.latitude, loc.longitude, line 1572)
UbicacionesSesion == { [lat |-> -3492112, lon |-> -5795431] }

\* datetime.now() at clock value t (lines 678-679 read its weekday, hour and
\* minute): the clock starts on a Monday at 19:00
Instante(t) == [weekday |-> 0, hour |-> 19 + (t \div 60), minute |-> t % 60]

\* an entry that is always given the role of the assistant
MensajeHistorialRoto(role, content, timestamp) ==
    [role |-> "assistant", content |-> content, timestamp |-> timestamp]

\* lines 1234-1236, 1292-1295, 1391-1394: an entry of a history
MensajeHistorial(role, content, timestamp) ==
    [role |-> role, content |-> content, timestamp |-> timestamp]

\* lines 1241-1250: the entries of the last hour, and of these at most the
\* last MAX_HISTORIAL_MENSAJES
Reciente(historial, ahora) ==
    LET hace_una_hora == ahora - VENTANA_HISTORIAL
        historial_rec == SelectSeq(historial,
                             LAMBDA m : m.timestamp > hace_una_hora)
    IN IF Len(historial_rec) > MAX_HISTORIAL_MENSAJES
       THEN SubSeq(historial_rec,
                   Len(historial_rec) - MAX_HISTORIAL_MENSAJES + 1,
                   Len(historial_rec))
       ELSE historial_rec

\* lines 1272-1275 and 1577-1579: next((m["content"] for m in
\* reversed(...) if m["role"] == "user"), None)
UltimoUser(historial) ==
    LET us == SelectSeq(historial, LAMBDA m : m.role = "user")
    IN IF us = << >> THEN NoEntry ELSE [content |-> us[Len(us)].content]

\* lines 1270-1278: a refinement is joined to the user's previous query
BusquedaMsg(historial_rec, mensaje) ==
    LET ultimo_user ==
            UltimoUser(SubSeq(historial_rec, 1, Len(historial_rec) - 1))
    IN IF /\ detectar_refinamiento(mensaje)
          /\ ultimo_user # NoEntry
          /\ ultimo_user.content # << >>
       THEN ultimo_user.content \o <<" ">> \o mensaje
       ELSE mensaje

\* lines 887-892: the haversine distance in km between two points, kept as
\* the term it is computed from
calcular_distancia(lat1, lon1, lat2, lon2) ==
    [haversine |-> << lat1, lon1, lat2, lon2 >>]

\* line 1315: the readable form of the distance d ("… metros", "… km")
DistanciaLegible(d) == [legible |-> d]

\* lines 1309-1315, the body of `for c in relevantes`: the dict c after it
ConDistancia(c, ubicacion) ==
    IF "lat" \in DOMAIN c /\ "lon" \in DOMAIN c
    THEN LET d == calcular_distancia(ubicacion.lat, ubicacion.lon, c.lat, c.lon)
         IN Con(Con(c, "_distancia_km", d), "distancia", DistanciaLegible(d))
    ELSE c

\* lines 764-768 of inyectar_estado_horario: the dict c after the branch on
\* the result of esta_abierto_ahora; None writes nothing
ConEstadoActual(c, estado) ==
    CASE estado = "True" -> Con(c, "estado_actual", "ABIERTO AHORA")
      [] estado = "False" -> Con(c, "estado_actual", "CERRADO AHORA")
      [] OTHER -> c

\* lines 759-768, the body of the loop of inyectar_estado_horario: the dict
\* c after it
ConEstado(c, ahora) ==
    LET horario == IF Get(c, "horarios", << >>) # << >> THEN c.horarios
                   ELSE Get(c, "horario", << >>)
    IN IF horario = << >> THEN c
       ELSE ConEstadoActual(c, esta_abierto_ahora(horario, ahora))

\* lines 1306-1323 on one dict of `relevantes`
Anotado(c, ubicacion, ahora) ==
    ConEstado(IF ubicacion # NoEntry THEN ConDistancia(c, ubicacion) ELSE c,
              ahora)

\* lines 1306-1323: the catalog after the loops over `relevantes`: an
\* element of `relevantes` that is a dict of the catalog is written in place
AnotarCatalogo(catalogo, relevantes, ubicacion, ahora) ==
    [i \in 1..Len(catalogo) |->
        IF \E n \in 1..Len(relevantes) : relevantes[n] = EnCatalogo(i)
        THEN Anotado(catalogo[i], ubicacion, ahora)
        ELSE catalogo[i]]

\* line 1335: _CAMPOS_EXCLUIR
CAMPOS_EXCLUIR ==
    {"lat", "lon", "maps", "id", "tags", "embedding", "similarity",
     "_distancia_km"}

\* lines 1338-1351, the body of `for c in relevantes`: the entry made from
\* the dict c.  (No value of the catalog is None, "" or [], so the test of
\* line 1349 drops nothing.)
DatoLlm(c) == [k \in DOMAIN c \ CAMPOS_EXCLUIR |-> c[k]]

\* lines 1336-1352: the entries of datos_llm, without their order (line 1320
\* sorts `relevantes` by distance when the user has a location); each is
\* made from the dict of the catalog as the loops of lines 1306-1323 left it
DatosLlm(catalogo, relevantes) ==
    {DatoLlm(catalogo[relevantes[n].i]) : n \in 1..Len(relevantes)}

\* the record kept of a call obtener_respuesta(u, mensaje): nothing done yet
Pedido(u, mensaje) ==
    [user_id |-> u, mensaje |-> mensaje, estado |-> "llamada",
     servicios |-> << >>, con_ubicacion |-> FALSE, durante |-> {},
     cache_key |-> << >>, datos_llm |-> {}, respuesta |-> 0]

\* the calls of user u that wait for the generation service
EnGeneracionDe(ts, u) == {t.id : t \in {x \in ts : x.user_id = u /\ x.pc = "llm"}}

\* what the turns leave alone
vars_sin_turno ==
    << vars_cola, vars_puro, vars_mensajes, cache_respuestas_global,
       cache_lock, en_curso, n_consultas, n_verif, rate_limit, limpieza,
       ult_cache >>

\* a call obtener_respuesta(u, mensaje) that has not begun
Llamada(id, u, mensaje) ==
    [id |-> id, user_id |-> u, pc |-> "llamada", mensaje |-> mensaje,
     ahora |-> 0, historial_rec |-> << >>, cache_key |-> << >>]

\* lines 1231-1365 of the call t = obtener_respuesta(u, mensaje), up to the
\* return of the hit path (line 1297) or to the generation call.  Each
\* local variable of the code is bound once, in the order the code assigns
\* it.
Comenzar(t) ==
    /\ t \in en_turno
    /\ t.pc = "llamada"
    /\ UNCHANGED n_turnos
    /\ \E resto \in {en_turno \ {t}}, id \in {t.id}, u \in {t.user_id},
          mensaje \in {t.mensaje}, ahora \in {reloj} :
       \E historial \in {Append(LRUGet(historiales_memoria, u, << >>),
                                MensajeHistorial("user", mensaje, ahora))} :
       \E historial_rec \in {Reciente(historial, ahora)} :
       \E guardado \in {LRUSet(historiales_memoria, MAX_USUARIOS_MEMORIA, u,
                               historial_rec)} :
       \E ubicacion \in {LRUGet(ubicaciones_memoria, u, NoEntry)} :
       \E busqueda_msg \in {BusquedaMsg(historial_rec, mensaje)} :
       \E cache_key \in {CacheKeyDe(u, ubicacion, busqueda_msg)} :
          /\ IF CacheHit(cache_respuestas_usuario, cache_key, ahora)
             THEN \E cached \in {cache_respuestas_usuario[
                      Posicion(cache_respuestas_usuario, cache_key)].respuesta} :
                     /\ historiales_memoria' =
                           LRUSet(guardado, MAX_USUARIOS_MEMORIA, u,
                                  Append(historial_rec,
                                      MensajeHistorial("assistant", cached, ahora)))
                     /\ en_turno' = resto
                     /\ COMERCIOS_COMPACTO' = COMERCIOS_COMPACTO
                     /\ n_memoria' = n_memoria + 4
                     /\ ult_turno' = [op |-> "hit", user_id |-> u,
                                      ahora |-> ahora, respuesta |-> cached]
                     /\ pedidos' = [pedidos EXCEPT ![id] =
                            [@ EXCEPT !.estado = "hit",
                                      !.con_ubicacion = ubicacion # NoEntry,
                                      !.durante = EnGeneracionDe(resto, u),
                                      !.cache_key = cache_key,
                                      !.respuesta = cached]]
             ELSE \E zona \in {detectar_zona(busqueda_msg)} :
                  \E busqueda \in {IF zona # NoEntry
                                   THEN busqueda_msg \o <<" ">> \o zona.zona
                                   ELSE busqueda_msg} :
                  \E relevantes \in {buscar_relevantes(FALSE, COMERCIOS_COMPACTO,
                                         busqueda, zona, TOP_K,
                                         [tipo |-> "falla_rpc"])} :
                     /\ historiales_memoria' = guardado
                     /\ en_turno' = resto \cup
                            {[id |-> id, user_id |-> u, pc |-> "llm",
                              mensaje |-> mensaje, ahora |-> ahora,
                              historial_rec |-> historial_rec,
                              cache_key |-> cache_key]}
                     /\ COMERCIOS_COMPACTO' =
                            AnotarCatalogo(COMERCIOS_COMPACTO, relevantes,
                                           ubicacion, Instante(ahora))
                     /\ n_memoria' = n_memoria + 3
                     /\ ult_turno' = [op |-> "llm", user_id |-> u,
                                      ahora |-> ahora, relevantes |-> relevantes]
                     /\ pedidos' = [pedidos EXCEPT ![id] =
                            [@ EXCEPT !.estado = "llm",
                                      !.servicios = <<"buscar_relevantes",
                                                      "chat.completions.create">>,
                                      !.con_ubicacion = ubicacion # NoEntry,
                                      !.durante = EnGeneracionDe(resto, u),
                                      !.cache_key = cache_key,
                                      !.datos_llm = DatosLlm(COMERCIOS_COMPACTO',
                                                             relevantes)]]
          /\ uso_memoria' =
                 [historial |-> SelectSeq(AlFinal(uso_memoria.historial, u),
                         LAMBDA k : PosicionLRU(guardado, k) # 0),
                  ubicacion |-> IF PosicionLRU(ubicaciones_memoria, u) # 0
                                THEN AlFinal(uso_memoria.ubicacion, u)
                                ELSE uso_memoria.ubicacion]
          /\ ult_memoria' = [op |-> "turno", user_id |-> u]
          /\ UNCHANGED << ubicaciones_memoria, reloj, cache_respuestas_usuario,
                          vars_sin_turno >>

\* lines 986-987, 1616-1617, 1678-1679: a handler is about to call
\* obtener_respuesta(user_id, texto, skip_log=True)
TurnoInicio(u, mensaje) ==
    /\ n_turnos < MaxTurnos
    /\ n_turnos' = n_turnos + 1
    /\ en_turno' = en_turno \cup {Llamada(n_turnos + 1, u, mensaje)}
    /\ ult_turno' = [op |-> "llamada", user_id |-> u]
    /\ pedidos' = Append(pedidos, Pedido(u, mensaje))
    /\ UNCHANGED << vars_memoria, COMERCIOS_COMPACTO, reloj,
                    cache_respuestas_usuario, vars_sin_turno >>

\* lines 1569-1583 of manejar_ubicacion: the location is saved and the last
\* query of the user is read; with one, the handler awaits reply_text and
\* send_action and then calls obtener_respuesta(user_id, "Repetí la
\* búsqueda de: …") (line 1584).  The user is marked as no longer new
\* (line 1573).
ManejarUbicacion(u, loc) ==
    /\ n_turnos < MaxTurnos
    /\ n_turnos' = n_turnos + 1
    /\ LET despues == LRUSet(ubicaciones_memoria, MAX_USUARIOS_MEMORIA, u, loc)
           ultimo == UltimoUser(LRUGet(historiales_memoria, u, << >>))
       IN /\ ubicaciones_memoria' = despues
          /\ en_turno' =
                 IF ultimo # NoEntry /\ ultimo.content # << >>
                 THEN en_turno \cup
                          {Llamada(n_turnos + 1, u, REPETIR \o ultimo.content)}
                 ELSE en_turno
          /\ uso_memoria' =
                 [historial |-> IF PosicionLRU(historiales_memoria, u) # 0
                                THEN AlFinal(uso_memoria.historial, u)
                                ELSE uso_memoria.historial,
                  ubicacion |-> UsoTrasEscritura("ubicacion", u, despues)]
          /\ ult_turno' = [op |-> "ubicacion", user_id |-> u,
                           repite |-> ultimo # NoEntry]
          /\ pedidos' = Append(pedidos,
                 IF ultimo # NoEntry /\ ultimo.content # << >>
                 THEN Pedido(u, REPETIR \o ultimo.content)
                 ELSE [Pedido(u, << >>) EXCEPT !.estado = "ninguna"])
    /\ n_memoria' = n_memoria + 2
    /\ ult_memoria' = [op |-> "turno", user_id |-> u]
    /\ usuarios_bienvenida' = usuarios_bienvenida \cup {u}
    /\ UNCHANGED << historiales_memoria, COMERCIOS_COMPACTO, reloj,
                    cache_respuestas_usuario, cache_respuestas_global,
                    cache_lock, en_curso, n_consultas, n_verif, rate_limit,
                    limpieza, ult_cache, manejados >>
    /\ UNCHANGED << vars_cola, vars_puro >>

\* lines 1366-1396: the generation call returns; the reply is stored in the
\* cache with the timestamp of line 1232, appended to the list of line 1252
\* and the list is saved
TurnoListo(t) ==
    /\ t \in en_turno
    /\ t.pc = "llm"
    /\ LET respuesta == Respuesta(t.id)
           despues == LRUSet(historiales_memoria, MAX_USUARIOS_MEMORIA,
                          t.user_id,
                          Append(t.historial_rec,
                              MensajeHistorial("assistant", respuesta, t.ahora)))
       IN /\ cache_respuestas_usuario' =
                 Desalojar(Guardar(cache_respuestas_usuario, t.cache_key,
                                   respuesta, t.ahora))
          /\ historiales_memoria' = despues
          /\ uso_memoria' = [uso_memoria EXCEPT
                 !.historial = UsoTrasEscritura("historial", t.user_id, despues)]
          /\ ult_turno' = [op |-> "listo", user_id |-> t.user_id,
                           ahora |-> t.ahora, respuesta |-> respuesta]
          /\ pedidos' = [pedidos EXCEPT ![t.id] =
                 [@ EXCEPT !.estado = "listo", !.respuesta = respuesta]]
    /\ en_turno' = en_turno \ {t}
    /\ n_memoria' = n_memoria + 1
    /\ ult_memoria' = [op |-> "turno", user_id |-> t.user_id]
    /\ UNCHANGED << ubicaciones_memoria, COMERCIOS_COMPACTO, n_turnos, reloj,
                    vars_sin_turno >>

\* lines 1365-1366 and 1398-1400: the generation call raises; the apology
\* is returned and neither the cache nor the history is written
TurnoFalla(t) ==
    /\ t \in en_turno
    /\ t.pc = "llm"
    /\ en_turno' = en_turno \ {t}
    /\ ult_turno' = [op |-> "falla", user_id |-> t.user_id, ahora |-> t.ahora,
                     respuesta |-> DISCULPA]
    /\ pedidos' = [pedidos EXCEPT ![t.id].estado = "falla"]
    /\ UNCHANGED << vars_memoria, COMERCIOS_COMPACTO, n_turnos, reloj,
                    cache_respuestas_usuario, vars_sin_turno >>

\* time passes
TickSesion ==
    /\ reloj + PasoReloj <= MaxRelojSesion
    /\ reloj' = reloj + PasoReloj
    /\ ult_turno' = [op |-> "tick"]
    /\ UNCHANGED << vars_memoria, COMERCIOS_COMPACTO, en_turno, n_turnos,
                    pedidos, cache_respuestas_usuario, vars_sin_turno >>

InitSesion == InitVarsCola /\ InitVarsCache /\ InitVarsResto

NextSesion ==
    \/ \E u \in Usuarios, mensaje \in Mensajes : TurnoInicio(u, mensaje)
    \/ \E u \in Usuarios, loc \in UbicacionesSesion : ManejarUbicacion(u, loc)
    \/ \E t \in en_turno : Comenzar(t)
    \/ \E t \in en_turno : TurnoListo(t)
    \/ \E t \in en_turno : TurnoFalla(t)
    \/ TickSesion

SpecSesion == InitSesion /\ [][NextSesion]_vars

\* C12: after any sequence of turns, the history saved for a user holds at
\* most MAX_HISTORIAL_MENSAJES entries, and no entry older than one hour
\* relative to the start of the turn that saved it, on the cache-hit path
\* and on the generation path.
C12_HistorialAcotado ==
    ult_turno.op \in {"hit", "llm", "listo"} =>
        LET h == LRUGet(historiales_memoria, ult_turno.user_id, << >>)
        IN /\ Len(h) <= MAX_HISTORIAL_MENSAJES
           /\ \A i \in 1..Len(h) :
                  h[i].timestamp > ult_turno.ahora - VENTANA_HISTORIAL

\* C14: retrieval, distance computation and open/closed annotation never
\* modify the entries of the in-memory catalog: after any sequence of turns
\* every catalog entry has exactly the fields and values it had after
\* loading.
C14_CatalogoIntacto == COMERCIOS_COMPACTO = CatalogoCargado(FALSE)

\* ------------------------------------------------ _expandir_rango_dias
\* day tokens of schedule texts: the names and the three-letter
\* abbreviations of the seven days
TokensDia ==
    { <<"l", "u", "n", "e", "s">>, <<"m", "a", "r", "t", "e", "s">>,
      <<"m", "i", "e", "r", "c", "o", "l", "e", "s">>,
      <<"j", "u", "e", "v", "e", "s">>, <<"v", "i", "e", "r", "n", "e", "s">>,
      <<"s", "a", "b", "a", "d", "o">>, <<"d", "o", "m", "i", "n", "g", "o">>,
      <<"l", "u", "n">>, <<"m", "a", "r">>, <<"m", "i", "e">>,
      <<"j", "u", "e">>, <<"v", "i", "e">>, <<"s", "a", "b">>,
      <<"d", "o", "m">> }

\* the two groups of a day range
InitRango ==
    /\ InitPrograma
    /\ entrada \in [g1 : TokensDia, g2 : TokensDia]
    /\ salida = NoEntry

\* lines 706-710: d1 and d2 of the two groups and the list of their range
ExpandirRango ==
    /\ salida = NoEntry
    /\ \E d1 \in {normalizar_dia(entrada.g1)} :
       \E d2 \in {normalizar_dia(entrada.g2)} :
           /\ d1 # -1
           /\ d2 # -1
           /\ salida' = [inicio |-> d1, fin |-> d2,
                         dias |-> expandir_rango_dias(d1, d2)]
    /\ UNCHANGED << entrada, vars_programa >>

NextRango == ExpandirRango

SpecRango == InitRango /\ [][NextRango]_vars

\* C23: a day range inicio-fin (0 = Monday .. 6 = Sunday) gives the
\* consecutive weekdays from inicio to fin inclusive, going round the end of
\* the week when fin precedes inicio (Saturday-Tuesday = Sat, Sun, Mon,
\* Tue); for every pair the result holds inicio and fin, has no day twice
\* and has (fin - inicio) mod 7 + 1 days.
C23_RangoDeDias ==
    salida # NoEntry =>
        LET l == salida.dias
        IN /\ Len(l) = ((salida.fin - salida.inicio + 7) % 7) + 1
           /\ \A i \in 1..Len(l) : l[i] = (salida.inicio + i - 1) % 7
           /\ \E i \in 1..Len(l) : l[i] = salida.inicio
           /\ \E i \in 1..Len(l) : l[i] = salida.fin
           /\ \A i, j \in 1..Len(l) : i # j => l[i] # l[j]
           /\ (salida.inicio = 5 /\ salida.fin = 1) => l = <<5, 6, 0, 1>>

\* every pair (inicio, fin) of weekdays is the pair of some two tokens
TodosLosPares ==
    \A a, b \in 0..6 :
        \E g1, g2 \in TokensDia :
            normalizar_dia(g1) = a /\ normalizar_dia(g2) = b

\* the range sab-martes was expanded, and the tokens give all 49 pairs
C23_Witness ==
    /\ entrada = [g1 |-> <<"s", "a", "b">>, g2 |-> <<"m", "a", "r", "t", "e", "s">>]
    /\ salida # NoEntry
    /\ salida.dias = <<5, 6, 0, 1>>
    /\ TodosLosPares

\* ------------------------------------------------------ expandir_consulta
\* calls of expandir_consulta on its own result, at most
MaxPasadas == 3

\* queries: with a key whose terms are keys again, with capitals and a word
\* that is no key, without any key, and with a key that has a letter ñ
\* "peluquero"
Q_Peluquero ==
    <<"p", "e", "l", "u", "q", "u", "e", "r", "o">>

\* "pintor"
Q_Pintor ==
    <<"p", "i", "n", "t", "o", "r">>

\* "Quiero PIZZA"
Q_Pizza ==
    <<"Q", "u", "i", "e", "r", "o", " ", "P", "I", "Z", "Z", "A">>

\* "hola"
Q_Hola ==
    <<"h", "o", "l", "a">>

\* "caño roto"
Q_Cano ==
    <<"c", "a", "ñ", "o", " ", "r", "o", "t", "o">>

\* "pintar"
Q_Pintar ==
    <<"p", "i", "n", "t", "a", "r">>

ConsultasExpandir ==
    { Q_Peluquero, Q_Pintor, Q_Pintar, Q_Pizza,
      Q_Hola, Q_Cano }

\* the orders in which a set can be iterated (a Python set of str has no
\* fixed order)
Ordenes(S) ==
    {f \in [1..Cardinality(S) -> S] : \A i, j \in 1..Cardinality(S) : i # j => f[i] # f[j]}

\* expandir_consulta without the test of line 408
expandir_consulta_Rota(consulta, orden) == consulta \o <<" ">> \o Unir(<<" ">>, orden)

\* lines 397-412: expandir_consulta, orden being the set `extras` in the
\* order in which " ".join iterates it
expandir_consulta(consulta, orden) ==
    IF orden # << >> THEN consulta \o <<" ">> \o Unir(<<" ">>, orden) ELSE consulta

\* the argument
InitExpandir ==
    /\ InitPrograma
    /\ entrada \in [consulta : ConsultasExpandir]
    /\ salida = NoEntry

\* a call of expandir_consulta, on the query or on the result of the call
\* before
Expandir ==
    /\ \E previa \in {IF salida = NoEntry THEN << >> ELSE salida.pasadas} :
           /\ Len(previa) < MaxPasadas
           /\ \E texto \in {IF previa = << >> THEN entrada.consulta
                            ELSE previa[Len(previa)]} :
              \E orden \in Ordenes(Extras(texto)) :
                  salida' = [pasadas |-> Append(previa, expandir_consulta(texto, orden))]
    /\ UNCHANGED << entrada, vars_programa >>

NextExpandir == Expandir

SpecExpandir == InitExpandir /\ [][NextExpandir]_vars

\* the set of the words of the normalized text
Tokens(texto) == Elementos(Palabras(normalizar_texto(texto)))

\* C24: expanding an expanded query again reaches a fixed point of the set
\* of words after two calls: the words of the third result are the words of
\* the second.
C24_PuntoFijo ==
    (salida # NoEntry /\ Len(salida.pasadas) >= 3) =>
        Tokens(salida.pasadas[3]) = Tokens(salida.pasadas[2])

\* the terms, normalized, of the words of the normalized text that are keys
\* of the synonym table
TerminosDe(texto) ==
    UNION { { normalizar_texto(SINONIMOS(t)[j]) : j \in 1..Len(SINONIMOS(t)) } :
            t \in Tokens(texto) }

\* resultado is texto followed by a space and its terms, each once, joined
\* by spaces, or texto itself when it has no term
Expandida(texto, resultado) ==
    IF TerminosDe(texto) = {} THEN resultado = texto
    ELSE /\ Len(resultado) > Len(texto)
         /\ SubSeq(resultado, 1, Len(texto)) = texto
         /\ \E orden \in Ordenes(TerminosDe(texto)) :
                SubSeq(resultado, Len(texto) + 1, Len(resultado))
                    = <<" ">> \o Unir(<<" ">>, orden)

CATALOGO_FILTRO ==
    <<
       [nombre |-> <<"R", "o", "t", "i", "s", "e", "r", "i", "a", " ",
                      "S", "u", "r">>,
        categoria |-> <<"r", "o", "t", "i", "s", "e", "r", "i", "a">>,
        zona |-> <<"G", "o", "n", "n", "e", "t">>,
        tags |-> <<"p", "i", "z", "z", "a", "s", " ", "e", "m", "p", "a",
                    "n", "a", "d", "a", "s">>,
        id |-> 0],
       [nombre |-> <<"L", "a", " ", "P", "i", "z", "z", "a">>,
        categoria |-> <<"p", "i", "z", "z", "e", "r", "i", "a">>,
        zona |-> <<"G", "o", "n", "n", "e", "t">>,
        id |-> 1],
       [nombre |-> <<"B", "a", "r", " ", "C", "e", "n", "t", "r", "o">>,
        categoria |-> <<"b", "a", "r">>,
        zona |-> <<"C", "i", "t", "y", " ", "B", "e", "l", "l">>,
        tags |-> <<"p", "i", "z", "z", "a", "s">>,
        id |-> 2],
       [nombre |-> <<"J", "u", "a", "n">>,
        rubro |-> <<"p", "l", "o", "m", "e", "r", "i", "a">>,
        id |-> 3],
       [nombre |-> <<"P", "i", "z", "z", "a", " ", "Y", "a">>,
        categoria |-> <<"p", "i", "z", "z", "e", "r", "i", "a">>,
        zona |-> <<"C", "i", "t", "y", " ", "B", "e", "l", "l">>,
        id |-> 4] >>

ConsultasFiltro ==
    { <<"p", "i", "z", "z", "a">>,
      <<"p", "l", "o", "m", "e", "r", "o", " ", "y", "a">>,
      <<"d", "e", " ", "l", "a">>,
      <<"h", "o", "l", "a">>,
      <<"B", "a", "r", " ", "P", "I", "Z", "Z">> }

ZonasFiltro ==
    { NoEntry, [zona |-> <<"G", "o", "n", "n", "e", "t">>],
      [zona |-> <<"C", "i", "t", "y", " ", "B", "e", "l", "l">>] }

\* the arguments, and the catalog loaded from data/comercios.json
InitFiltro ==
    /\ entrada \in [consulta : ConsultasFiltro, zona : ZonasFiltro,
                    top_k : {1, 2, 3, TOP_K}]
    /\ salida = NoEntry
    /\ InitVarsCola /\ InitVarsCache /\ InitVarsMemoria /\ InitVarsMensajes
    /\ COMERCIOS_COMPACTO = CATALOGO_FILTRO
    /\ en_turno = {}
    /\ n_turnos = 0
    /\ ult_turno = [op |-> "init"]
    /\ pedidos = << >>

\* lines 795-849: the call filtrar_json_local(consulta, zona, top_k)
Filtrar ==
    /\ salida = NoEntry
    /\ salida' = [resultado |->
           filtrar_json_local(COMERCIOS_COMPACTO, entrada.consulta,
                              entrada.zona, entrada.top_k)]
    /\ UNCHANGED << entrada, vars_programa >>

NextFiltro == Filtrar

SpecFiltro == InitFiltro /\ [][NextFiltro]_vars

\* the score of the i-th entry of the catalog for the arguments of the call
PuntajeDe(i) ==
    Puntaje(COMERCIOS_COMPACTO[i], PalabrasFiltro(entrada.consulta), entrada.zona)

\* the place of the i-th entry in the result, 0 when it is not there
LugarDe(i) ==
    IF \E n \in 1..Len(salida.resultado) : salida.resultado[n] = i
    THEN CHOOSE n \in 1..Len(salida.resultado) : salida.resultado[n] = i
    ELSE 0

\* the zone bonus of the i-th entry (lines 832-836), in halves of a point
BonoDeZona(i) == Puntaje(COMERCIOS_COMPACTO[i], {}, entrada.zona)

\* the field campo of the i-th entry, normalized
CampoDe(i, campo) == normalizar_texto(Get(COMERCIOS_COMPACTO[i], campo, << >>))

\* the i-th entry matches the words of the query in one way only: a word
\* of its tags starts with p
SoloPrefijoEnTags(i, p) ==
    /\ \E w \in Elementos(Palabras(CampoDe(i, "tags"))) : EmpiezaCon(w, p)
    /\ \A q \in PalabrasFiltro(entrada.consulta) :
           /\ ~Contiene(CampoDe(i, "nombre"), q)
           /\ ~Contiene(CampoDe(i, "categoria"), q)
           /\ ~Contiene(CampoDe(i, "rubro"), q)
           /\ q # p => ~Contiene(CampoDe(i, "tags"), q)

\* C26: for equal zone bonus, an entry whose name contains a word of the
\* query gets a strictly higher score, and so an earlier place in the
\* result, than an entry that matches that word only by the start of a word
\* of its tags.
C26_NombreAntesQueTags ==
    salida # NoEntry =>
        \A a, b \in 1..Len(COMERCIOS_COMPACTO) :
            \A p \in PalabrasFiltro(entrada.consulta) :
                (/\ BonoDeZona(a) = BonoDeZona(b)
                 /\ Contiene(CampoDe(a, "nombre"), p)
                 /\ SoloPrefijoEnTags(b, p))
                    => /\ PuntajeDe(a) > PuntajeDe(b)
                       /\ LugarDe(b) # 0 =>
                              (LugarDe(a) # 0 /\ LugarDe(a) < LugarDe(b))

\* "pizza" in Gonnet: "La Pizza" comes before "Rotiseria Sur" (tags "pizzas
\* empanadas"), which stands before it in the catalog
C26_Witness ==
    /\ salida # NoEntry
    /\ entrada.consulta = <<"p", "i", "z", "z", "a">>
    /\ entrada.zona = [zona |-> <<"G", "o", "n", "n", "e", "t">>]
    /\ salida.resultado = <<2, 5, 1, 3>>

\* C27: the result holds only entries with a score above 0, at most top_k
\* of them, by descending score with equal scores in the order of the
\* catalog; it is the empty list when no entry scores above 0 and when the
\* query has no usable word and no zone is given.
C27_Resultado ==
    salida # NoEntry =>
        LET r == salida.resultado
        IN /\ \A n \in 1..Len(r) : PuntajeDe(r[n]) > 0
           /\ Len(r) <= entrada.top_k
           /\ \A n, m \in 1..Len(r) :
                  n < m => \/ PuntajeDe(r[n]) > PuntajeDe(r[m])
                           \/ PuntajeDe(r[n]) = PuntajeDe(r[m]) /\ r[n] < r[m]
           /\ (\A i \in 1..Len(COMERCIOS_COMPACTO) : PuntajeDe(i) = 0) => r = << >>
           /\ (PalabrasFiltro(entrada.consulta) = {} /\ entrada.zona = NoEntry)
                  => r = << >>

\* "pizza" without zone and top_k = 3: the two entries of equal score in
\* catalog order, and the fourth entry with a score left out
C27_Witness ==
    /\ salida # NoEntry
    /\ entrada.consulta = <<"p", "i", "z", "z", "a">>
    /\ entrada.zona = NoEntry
    /\ entrada.top_k = 3
    /\ salida.resultado = <<2, 5, 1>>
    /\ PuntajeDe(3) > 0

\* ------------------------------------------------------- manejar_mensaje
\* text messages handled, at most
MaxMensajes == 3

\* steps of the clock in a minute: in the study of manejar_mensaje reloj
\* counts these steps
PasosPorMinuto == 2

\* line 508: timedelta(minutes=1), in steps of the clock
VentanaRate == VENTANA_RATE_MINUTOS * PasosPorMinuto

\* text messages: "Reset " (a command to reset), "pan" (a search) and the
\* button of the zone Gonnet; the emoji the buttons begin with (line 1676)
\* is the character written "casas"
M_Reset == <<"R", "e", "s", "e", "t", " ">>
M_Pan == <<"p", "a", "n">>
M_Boton == <<"casas", " ", "G", "o", "n", "n", "e", "t">>

TextosMensaje == {M_Reset, M_Pan, M_Boton}

\* the messages that arrive: any of the three from one user, searches from
\* the other
MensajesRecibidos ==
    {[user_id |-> "u1", texto |-> texto] : texto \in TextosMensaje}
        \cup {[user_id |-> "u2", texto |-> M_Pan]}

\* line 1631: texto.lower().strip() in ("reset", "/reset", "resetear",
\* "borrar historial")
EsReset(texto) ==
    Strip(Minusculas(texto)) \in
        { <<"r", "e", "s", "e", "t">>, <<"/", "r", "e", "s", "e", "t">>,
          <<"r", "e", "s", "e", "t", "e", "a", "r">>,
          <<"b", "o", "r", "r", "a", "r", " ", "h", "i", "s", "t", "o", "r", "i", "a", "l">> }

\* line 1676: texto.startswith(emoji)
EsBotonDeZona(texto) == EmpiezaCon(texto, <<"casas">>)

\* line 1677: f"Qué comercios hay en {texto.replace(emoji, '').strip()}?"
ConsultaDeBoton(texto) ==
    <<"Q", "u", "é", " ", "c", "o", "m", "e", "r", "c", "i", "o", "s", " ", "h", "a", "y", " ", "e", "n", " ">>
        \o Strip(SelectSeq(texto, LAMBDA c : c # "casas")) \o <<"?">>

\* lines 1634-1636 and 1641-1644: the texts of the two replies
RESPUESTA_RESET == "Listo! Borré el historial."
RESPUESTA_LIMITE == "Che, bajá un cambio!"

\* lines 231-394: the keys of SINONIMOS, as written in the source
CLAVES_SINONIMOS ==
    { <<"p", "i", "z", "z", "a">>,
      <<"p", "i", "z", "z", "a", "s">>,
      <<"f", "u", "g", "a", "z", "z", "e", "t", "a">>,
      <<"m", "u", "z", "z", "a", "r", "e", "l", "l", "a">>,
      <<"e", "m", "p", "a", "n", "a", "d", "a">>,
      <<"e", "m", "p", "a", "n", "a", "d", "a", "s">>,
      <<"h", "a", "m", "b", "u", "r", "g", "u", "e", "s", "a">>,
      <<"h", "a", "m", "b", "u", "r", "g", "u", "e", "s", "a", "s">>,
      <<"b", "u", "r", "g", "e", "r">>,
      <<"s", "u", "s", "h", "i">>,
      <<"r", "o", "l", "l", "s">>,
      <<"h", "e", "l", "a", "d", "o">>,
      <<"h", "e", "l", "a", "d", "o", "s">>,
      <<"f", "a", "c", "t", "u", "r", "a", "s">>,
      <<"p", "a", "n">>,
      <<"m", "e", "d", "i", "a", "l", "u", "n", "a", "s">>,
      <<"t", "o", "r", "t", "a">>,
      <<"t", "o", "r", "t", "a", "s">>,
      <<"c", "a", "f", "e">>,
      <<"c", "a", "f", "e", "c", "i", "t", "o">>,
      <<"d", "e", "s", "a", "y", "u", "n", "o">>,
      <<"m", "e", "r", "i", "e", "n", "d", "a">>,
      <<"b", "r", "u", "n", "c", "h">>,
      <<"a", "l", "f", "a", "j", "o", "r">>,
      <<"a", "l", "f", "a", "j", "o", "r", "e", "s">>,
      <<"c", "h", "o", "c", "o", "l", "a", "t", "e">>,
      <<"c", "a", "r", "n", "e">>,
      <<"a", "s", "a", "d", "o">>,
      <<"a", "c", "h", "u", "r", "a", "s">>,
      <<"v", "a", "c", "i", "o">>,
      <<"p", "o", "l", "l", "o">>,
      <<"v", "e", "r", "d", "u", "r", "a">>,
      <<"v", "e", "r", "d", "u", "r", "a", "s">>,
      <<"f", "r", "u", "t", "a">>,
      <<"f", "r", "u", "t", "a", "s">>,
      <<"o", "r", "g", "a", "n", "i", "c", "o">>,
      <<"c", "o", "m", "e", "r">>,
      <<"c", "o", "m", "i", "d", "a">>,
      <<"c", "e", "n", "a", "r">>,
      <<"a", "l", "m", "o", "r", "z", "a", "r">>,
      <<"m", "o", "r", "f", "i">>,
      <<"p", "a", "r", "r", "i", "l", "l", "a">>,
      <<"p", "a", "s", "t", "a", "s">>,
      <<"m", "i", "l", "a", "n", "e", "s", "a">>,
      <<"m", "i", "l", "a", "n", "e", "s", "a", "s">>,
      <<"b", "i", "r", "r", "a">>,
      <<"c", "e", "r", "v", "e", "z", "a">>,
      <<"t", "r", "a", "g", "o">>,
      <<"t", "r", "a", "g", "o", "s">>,
      <<"p", "i", "c", "a", "d", "a">>,
      <<"p", "i", "c", "a", "d", "a", "s">>,
      <<"r", "e", "m", "e", "d", "i", "o">>,
      <<"r", "e", "m", "e", "d", "i", "o", "s">>,
      <<"m", "e", "d", "i", "c", "a", "m", "e", "n", "t", "o">>,
      <<"m", "e", "d", "i", "c", "a", "m", "e", "n", "t", "o", "s">>,
      <<"p", "a", "s", "t", "i", "l", "l", "a">>,
      <<"p", "a", "s", "t", "i", "l", "l", "a", "s">>,
      <<"p", "e", "r", "f", "u", "m", "e", "r", "i", "a">>,
      <<"c", "o", "s", "m", "e", "t", "i", "c", "o", "s">>,
      <<"o", "c", "u", "l", "i", "s", "t", "a">>,
      <<"a", "n", "t", "e", "o", "j", "o", "s">>,
      <<"l", "e", "n", "t", "e", "s">>,
      <<"v", "e", "t", "e", "r", "i", "n", "a", "r", "i", "o">>,
      <<"p", "e", "r", "r", "o">>,
      <<"g", "a", "t", "o">>,
      <<"m", "a", "s", "c", "o", "t", "a">>,
      <<"m", "a", "s", "c", "o", "t", "a", "s">>,
      <<"a", "l", "i", "m", "e", "n", "t", "o">>,
      <<"p", "l", "o", "m", "e", "r", "o">>,
      <<"c", "a", "ñ", "o">>,
      <<"c", "a", "ñ", "e", "r", "i", "a">>,
      <<"a", "g", "u", "a">>,
      <<"e", "l", "e", "c", "t", "r", "i", "c", "i", "s", "t", "a">>,
      <<"e", "n", "c", "h", "u", "f", "e">>,
      <<"l", "u", "z">>,
      <<"c", "o", "r", "t", "o", "c", "i", "r", "c", "u", "i", "t", "o">>,
      <<"a", "l", "b", "a", "ñ", "i", "l">>,
      <<"o", "b", "r", "a">>,
      <<"r", "e", "f", "o", "r", "m", "a">>,
      <<"c", "o", "n", "s", "t", "r", "u", "c", "c", "i", "o", "n">>,
      <<"l", "l", "a", "v", "e">>,
      <<"c", "e", "r", "r", "a", "d", "u", "r", "a">>,
      <<"c", "e", "r", "r", "a", "j", "e", "r", "o">>,
      <<"p", "i", "n", "t", "a", "r">>,
      <<"p", "i", "n", "t", "o", "r">>,
      <<"p", "a", "s", "t", "o">>,
      <<"j", "a", "r", "d", "i", "n">>,
      <<"p", "o", "d", "a">>,
      <<"j", "a", "r", "d", "i", "n", "e", "r", "o">>,
      <<"g", "a", "s">>,
      <<"e", "s", "t", "u", "f", "a">>,
      <<"c", "a", "l", "e", "f", "o", "n">>,
      <<"c", "a", "l", "e", "f", "a", "c", "c", "i", "o", "n">>,
      <<"a", "i", "r", "e">>,
      <<"s", "p", "l", "i", "t">>,
      <<"a", "c", "o", "n", "d", "i", "c", "i", "o", "n", "a", "d", "o">>,
      <<"m", "u", "d", "a", "n", "z", "a">>,
      <<"m", "u", "d", "a", "n", "z", "a", "s">>,
      <<"f", "l", "e", "t", "e">>,
      <<"c", "o", "c", "a">>,
      <<"g", "o", "l", "o", "s", "i", "n", "a", "s">>,
      <<"c", "i", "g", "a", "r", "r", "i", "l", "l", "o", "s">>,
      <<"s", "n", "a", "c", "k", "s">>,
      <<"g", "a", "l", "l", "e", "t", "i", "t", "a", "s">>,
      <<"b", "e", "b", "i", "d", "a">>,
      <<"b", "e", "b", "i", "d", "a", "s">>,
      <<"f", "e", "r", "r", "e", "t", "e", "r", "i", "a">>,
      <<"h", "e", "r", "r", "a", "m", "i", "e", "n", "t", "a">>,
      <<"h", "e", "r", "r", "a", "m", "i", "e", "n", "t", "a", "s">>,
      <<"t", "o", "r", "n", "i", "l", "l", "o">>,
      <<"t", "o", "r", "n", "i", "l", "l", "o", "s">>,
      <<"c", "l", "a", "v", "o">>,
      <<"c", "l", "a", "v", "o", "s">>,
      <<"p", "i", "n", "t", "u", "r", "a">>,
      <<"m", "a", "t", "e", "r", "i", "a", "l", "e", "s">>,
      <<"c", "o", "r", "r", "a", "l", "o", "n">>,
      <<"a", "r", "e", "n", "a">>,
      <<"g", "i", "m", "n", "a", "s", "i", "o">>,
      <<"g", "y", "m">>,
      <<"c", "r", "o", "s", "s", "f", "i", "t">>,
      <<"e", "n", "t", "r", "e", "n", "a", "r">>,
      <<"s", "p", "i", "n", "n", "i", "n", "g">>,
      <<"y", "o", "g", "a">>,
      <<"p", "i", "l", "e", "t", "a">>,
      <<"n", "a", "t", "a", "c", "i", "o", "n">>,
      <<"p", "a", "d", "d", "l", "e">>,
      <<"t", "e", "n", "i", "s">>,
      <<"p", "e", "l", "u", "q", "u", "e", "r", "i", "a">>,
      <<"p", "e", "l", "u", "q", "u", "e", "r", "o">>,
      <<"c", "o", "r", "t", "e">>,
      <<"t", "i", "n", "t", "u", "r", "a">>,
      <<"b", "a", "r", "b", "e", "r", "i", "a">>,
      <<"b", "a", "r", "b", "e", "r", "o">>,
      <<"b", "a", "r", "b", "a">>,
      <<"u", "ñ", "a", "s">>,
      <<"d", "e", "p", "i", "l", "a", "c", "i", "o", "n">>,
      <<"l", "a", "v", "a", "d", "e", "r", "o">>,
      <<"l", "a", "v", "a", "n", "d", "e", "r", "i", "a">>,
      <<"l", "a", "v", "a", "r">>,
      <<"a", "u", "t", "o">>,
      <<"m", "e", "c", "a", "n", "i", "c", "o">>,
      <<"r", "u", "e", "d", "a">>,
      <<"g", "o", "m", "a">>,
      <<"p", "i", "n", "c", "h", "a", "d", "a">>,
      <<"n", "a", "f", "t", "a">> }

\* lines 1407-1411: _SALUDOS
SALUDOS ==
    { <<"h", "o", "l", "a">>,
      <<"b", "u", "e", "n", "a", "s">>,
      <<"b", "u", "e", "n", " ", "d", "i", "a">>,
      <<"b", "u", "e", "n", " ", "d", "í", "a">>,
      <<"h", "o", "l", "i", "s">>,
      <<"h", "o", "l", "a", " ", "v", "e", "c", "i", "n", "i", "t", "o">>,
      <<"q", "u", "e", " ", "t", "a", "l">>,
      <<"q", "u", "é", " ", "t", "a", "l">>,
      <<"b", "u", "e", "n", "a", "s", " ", "t", "a", "r", "d", "e", "s">>,
      <<"b", "u", "e", "n", "a", "s", " ", "n", "o", "c", "h", "e", "s">>,
      <<"b", "u", "e", "n", "o", "s", " ", "d", "i", "a", "s">>,
      <<"b", "u", "e", "n", "o", "s", " ", "d", "í", "a", "s">>,
      <<"h", "e", "y">> }

RECURSIVE QuitarFinal(_, _)
\* str.rstrip(cs)
QuitarFinal(s, cs) ==
    IF Len(s) > 0 /\ s[Len(s)] \in cs
    THEN QuitarFinal(SubSeq(s, 1, Len(s) - 1), cs)
    ELSE s

RECURSIVE QuitarInicio(_, _)
\* str.lstrip(cs)
QuitarInicio(s, cs) ==
    IF Len(s) > 0 /\ s[1] \in cs THEN QuitarInicio(Tail(s), cs) ELSE s

\* the length of the run of equal characters that s begins with
Racha(s) ==
    IF \E i \in 1..Len(s) : s[i] # s[1]
    THEN Minimo({i \in 1..Len(s) : s[i] # s[1]}) - 1
    ELSE Len(s)

RECURSIVE Colapsar(_)
\* line 1418: re.sub(r"(.)\1{2,}", r"\1", s): a run of three or more equal
\* characters becomes one of them; a run of two stays
Colapsar(s) ==
    IF s = << >> THEN << >>
    ELSE IF Racha(s) >= 3
         THEN << s[1] >> \o Colapsar(SubSeq(s, Racha(s) + 1, Len(s)))
         ELSE << s[1] >> \o Colapsar(Tail(s))

\* lines 1414-1418: _es_saludo
es_saludo(texto) ==
    LET limpio == QuitarFinal(Strip(Minusculas(texto)), {"!", ".", " "})
    IN limpio \in SALUDOS \/ Colapsar(limpio) \in SALUDOS

\* lines 1449-1491: _mensaje_tiene_busqueda.  The greetings are tried from
\* the longest (line 1456), so the one taken off is the longest that the
\* text begins with.
mensaje_tiene_busqueda(texto) ==
    LET norm == normalizar_texto(texto)
        saludos == {p \in {normalizar_texto(x) : x \in SALUDOS} :
                       EmpiezaCon(norm, p)}
        saludo == CHOOSE p \in saludos : \A q \in saludos : Len(q) <= Len(p)
        limpio == IF saludos = {} THEN norm
                  ELSE QuitarFinal(QuitarInicio(
                           SubSeq(norm, Len(saludo) + 1, Len(norm)),
                           {" ", ",", "!", "."}), {" ", ",", "!", "."})
        palabras == Palabras(limpio)
        INTENT ==
            { <<"q", "u", "i", "e", "r", "o">>,
              <<"n", "e", "c", "e", "s", "i", "t", "o">>,
              <<"b", "u", "s", "c", "o">>,
              <<"b", "u", "s", "c", "a", "n", "d", "o">>,
              <<"h", "a", "y">>,
              <<"d", "o", "n", "d", "e">>,
              <<"c", "u", "a", "l">>,
              <<"a", "l", "g", "u", "n", "a">>,
              <<"a", "l", "g", "u", "n", "o">>,
              <<"r", "e", "c", "o", "m", "i", "e", "n", "d", "a">>,
              <<"r", "e", "c", "o", "m", "e", "n", "d", "a", "m", "e">>,
              <<"r", "e", "c", "o", "m", "e", "n", "d", "a", "s">>,
              <<"c", "e", "r", "c", "a">>,
              <<"a", "b", "i", "e", "r", "t", "a">>,
              <<"a", "b", "i", "e", "r", "t", "o">>,
              <<"u", "r", "g", "e", "n", "t", "e">>,
              <<"c", "o", "n", "s", "e", "g", "u", "i", "r">>,
              <<"e", "n", "c", "o", "n", "t", "r", "a", "r">>,
              <<"p", "r", "e", "c", "i", "s", "o">> }
    IN IF Len(limpio) < 3 THEN FALSE
       ELSE \/ \E i \in 1..Len(palabras) :
                 \/ palabras[i] \in CLAVES_SINONIMOS
                 \/ /\ Len(palabras[i]) >= 4
                    /\ \E k \in CLAVES_SINONIMOS :
                           \/ EmpiezaCon(palabras[i], k)
                           \/ EmpiezaCon(k, palabras[i])
            \/ \E i \in 1..Len(palabras) : palabras[i] \in INTENT
            \/ Len(palabras) >= 3

\* lines 1685-1693: a phrase that announces a location is in the text
EsFraseUbicacion(texto) ==
    \E f \in
            { <<"t", "e", " ", "p", "a", "s", "o", " ", "m", "i", " ", "u", "b", "i", "c", "a", "c", "i", "o", "n">>,
              <<"t", "e", " ", "m", "a", "n", "d", "o", " ", "m", "i", " ", "u", "b", "i", "c", "a", "c", "i", "o", "n">>,
              <<"t", "e", " ", "c", "o", "m", "p", "a", "r", "t", "o", " ", "m", "i", " ", "u", "b", "i", "c", "a", "c", "i", "o", "n">>,
              <<"a", "h", "i", " ", "t", "e", " ", "m", "a", "n", "d", "o", " ", "l", "a", " ", "u", "b", "i", "c", "a", "c", "i", "o", "n">>,
              <<"a", "h", "i", " ", "v", "a", " ", "m", "i", " ", "u", "b", "i", "c", "a", "c", "i", "o", "n">>,
              <<"m", "a", "n", "d", "o", " ", "u", "b", "i", "c", "a", "c", "i", "o", "n">>,
              <<"t", "e", " ", "m", "a", "n", "d", "o", " ", "e", "l", " ", "p", "i", "n">>,
              <<"t", "e", " ", "p", "a", "s", "o", " ", "l", "a", " ", "u", "b", "i", "c", "a", "c", "i", "o", "n">>,
              <<"l", "e", " ", "m", "a", "n", "d", "o", " ", "l", "a", " ", "u", "b", "i", "c", "a", "c", "i", "o", "n">>,
              <<"t", "e", " ", "m", "a", "n", "d", "o", " ", "u", "b", "i", "c", "a", "c", "i", "o", "n">>,
              <<"p", "a", "s", "o", " ", "u", "b", "i", "c", "a", "c", "i", "o", "n">>,
              <<"c", "o", "m", "p", "a", "r", "t", "o", " ", "u", "b", "i", "c", "a", "c", "i", "o", "n">>,
              <<"a", "h", "i", " ", "t", "e", " ", "p", "a", "s", "o", " ", "l", "a", " ", "u", "b", "i", "c", "a", "c", "i", "o", "n">>,
              <<"y", "a", " ", "t", "e", " ", "m", "a", "n", "d", "o", " ", "l", "a", " ", "u", "b", "i", "c", "a", "c", "i", "o", "n">> } :
        Contiene(normalizar_texto(texto), f)

\* es_usuario_nuevo that does not look at the set of line 189
es_usuario_nuevo_Roto(marcados, historial, u) ==
    [nuevo |-> historial = << >>,
     marcados |-> IF historial # << >> THEN marcados \cup {u} ELSE marcados]

\* lines 487-495: es_usuario_nuevo(u) on the set of line 189 and the history
\* of the user: what it returns and the set it leaves
es_usuario_nuevo(marcados, historial, u) ==
    IF u \in marcados THEN [nuevo |-> FALSE, marcados |-> marcados]
    ELSE IF historial # << >>
    THEN [nuevo |-> FALSE, marcados |-> marcados \cup {u}]
    ELSE [nuevo |-> TRUE, marcados |-> marcados]

\* lines 1494-1529: enviar_bienvenida_si_nuevo: whether the welcome
\* (MENSAJE_BIENVENIDA, line 1526) is sent, and the set of line 189 after
\* it.  The user is marked at line 1504, before the only await of the
\* function (line 1524).  With a search in the text, the keyboard is kept
\* for the reply of the search (line 1520) and nothing is sent.
enviar_bienvenida_si_nuevo(marcados, historial, u, texto) ==
    LET n == es_usuario_nuevo(marcados, historial, u)
    IN IF ~n.nuevo THEN [enviada |-> FALSE, marcados |-> n.marcados]
       ELSE [enviada |-> ~mensaje_tiene_busqueda(texto),
             marcados |-> n.marcados \cup {u}]

\* lines 1651-1666, 1694-1697 and 1543-1554: the texts of three more replies
RESPUESTA_SALUDO == "Hola! Soy Vecinito, tu asistente de barrio."
RESPUESTA_PIN == "Dale, mandame el pin de ubicación!"
RESPUESTA_START == "¡Hola! Soy Vecinito. Preguntame lo que necesites."

\* verificar_rate_limit with `>` for `>=` at line 515
verificar_rate_limit_Roto(lista, ahora) ==
    LET ventana == ahora - VentanaRate
        filtrada == Recientes(lista, ventana)
    IN IF Len(filtrada) > MAX_MENSAJES_POR_MINUTO
       THEN [aceptado |-> FALSE, ts |-> filtrada]
       ELSE [aceptado |-> TRUE, ts |-> Append(filtrada, ahora)]

\* lines 506-520: verificar_rate_limit on the list of the user (empty when
\* the user has none): what it returns and the list it leaves
verificar_rate_limit(lista, ahora) ==
    LET ventana == ahora - VentanaRate
        filtrada == Recientes(lista, ventana)
    IN IF Len(filtrada) >= MAX_MENSAJES_POR_MINUTO
       THEN [aceptado |-> FALSE, ts |-> filtrada]
       ELSE [aceptado |-> TRUE, ts |-> Append(filtrada, ahora)]

\* lines 1621-1699: manejar_mensaje up to the await at which it sends its
\* reply or goes on.  A reset is served before the rate limit is looked at;
\* a message over the limit is answered and dropped.  Of an accepted
\* message, the test of the new user and the mark (lines 1501-1504) run
\* with no await between them; then the handler returns after the welcome
\* to a greeting (line 1670), after the reply to a greeting (line 1667) or
\* after the reply to a phrase that announces a location (line 1697), or it
\* goes on to the zone button or to agregar_mensaje_a_cola.  The replies
\* are taken as delivered at the first attempt of responder_seguro.
ManejarMensaje(u, texto) ==
    /\ Len(manejados) < MaxMensajes
    /\ IF EsReset(texto)
       THEN /\ historiales_memoria' = LRUPop(historiales_memoria, u)
            /\ ubicaciones_memoria' = LRUPop(ubicaciones_memoria, u)
            /\ ult_memoria' = [op |-> "pop", user_id |-> u]
            /\ uso_memoria' =
                   [historial |-> SelectSeq(uso_memoria.historial, LAMBDA k : k # u),
                    ubicacion |-> SelectSeq(uso_memoria.ubicacion, LAMBDA k : k # u)]
            /\ manejados' = Append(manejados,
                   [user_id |-> u, texto |-> texto, t |-> reloj,
                    resultado |-> "reset", respuesta |-> RESPUESTA_RESET,
                    bienvenida |-> FALSE])
            /\ UNCHANGED << rate_limit, n_memoria, usuarios_bienvenida >>
       ELSE \E v \in {verificar_rate_limit(
                          IF rate_limit[u] = NoEntry THEN << >>
                          ELSE rate_limit[u].ts, reloj)} :
                /\ rate_limit' = [rate_limit EXCEPT ![u] = [ts |-> v.ts]]
                /\ IF ~v.aceptado
                   THEN /\ manejados' = Append(manejados,
                               [user_id |-> u, texto |-> texto, t |-> reloj,
                                resultado |-> "limitado",
                                respuesta |-> RESPUESTA_LIMITE,
                                bienvenida |-> FALSE])
                        /\ UNCHANGED usuarios_bienvenida
                   ELSE \E b \in {enviar_bienvenida_si_nuevo(
                                      usuarios_bienvenida,
                                      LRUGet(historiales_memoria, u, << >>),
                                      u, texto)} :
                            /\ usuarios_bienvenida' = b.marcados
                            /\ LET resultado ==
                                       IF ~b.enviada /\ es_saludo(texto)
                                       THEN "saludo"
                                       ELSE IF /\ b.enviada
                                               /\ es_saludo(texto)
                                               /\ ~mensaje_tiene_busqueda(texto)
                                       THEN "bienvenida"
                                       ELSE IF ~EsBotonDeZona(texto)
                                               /\ EsFraseUbicacion(texto)
                                       THEN "pin"
                                       ELSE "aceptado"
                               IN manejados' = Append(manejados,
                                      [user_id |-> u, texto |-> texto,
                                       t |-> reloj, resultado |-> resultado,
                                       respuesta |->
                                           IF resultado = "saludo"
                                           THEN RESPUESTA_SALUDO
                                           ELSE IF resultado = "pin"
                                           THEN RESPUESTA_PIN
                                           ELSE "",
                                       bienvenida |-> b.enviada])
                /\ UNCHANGED vars_memoria
    /\ UNCHANGED << reloj, cache_respuestas_usuario, cache_respuestas_global,
                    cache_lock, en_curso, n_consultas, n_verif, limpieza,
                    ult_cache >>
    /\ UNCHANGED << vars_cola, vars_puro, vars_turno >>

\* the accepted messages of user u with this text
Aceptados(u, texto) ==
    {k \in 1..Len(manejados) :
        /\ manejados[k].user_id = u
        /\ manejados[k].texto = texto
        /\ manejados[k].resultado = "aceptado"}

\* the messages of user u with this text that went on to
\* agregar_mensaje_a_cola
EnCola(u, texto) ==
    Cardinality({c \in llamadas : c.user_id = u /\ c.mensaje = texto})
    + Cardinality({k \in 1..Len(enviados[u]) : enviados[u][k] = texto})

\* the zone buttons of user u with this text that went on to
\* obtener_respuesta
EnGeneracion(u, texto) ==
    Cardinality({k \in 1..Len(turnos) :
                    /\ turnos[k].user_id = u
                    /\ turnos[k].mensaje_final = ConsultaDeBoton(texto)})

\* line 1699: an accepted message that is no zone button reaches
\* agregar_mensaje_a_cola and waits for the lock (line 944)
PasarACola(u, texto) ==
    /\ ~EsBotonDeZona(texto)
    /\ Cardinality(Aceptados(u, texto)) > EnCola(u, texto)
    /\ EnqAcquire(u, texto)

\* lines 1676-1682: an accepted zone button is past its awaits and calls
\* obtener_respuesta with the query made of it
PasarAGeneracion(u, texto) ==
    /\ EsBotonDeZona(texto)
    /\ Cardinality(Aceptados(u, texto)) > EnGeneracion(u, texto)
    /\ turnos' = Append(turnos,
           [user_id |-> u, mensajes |-> << ConsultaDeBoton(texto) >>,
            mensaje_final |-> ConsultaDeBoton(texto), update |-> 0])
    /\ ult_cola' = [op |-> "boton", user_id |-> u]
    /\ UNCHANGED << cola_mensajes, cola_lock_global, llamadas, tareas,
                    n_updates, enviados, rafagas >>
    /\ UNCHANGED << vars_cache, vars_resto >>

\* lines 547-552 of the sweep: the users without a recent message lose
\* their list; ahora was read at line 531, before the sweep waited for the
\* lock of the caches
PurgarRateLimit ==
    /\ \E ahora \in 0..reloj :
           rate_limit' = [u \in Usuarios |->
               IF rate_limit[u] # NoEntry
                  /\ Inactivo(rate_limit[u].ts, ahora - VentanaRate)
               THEN NoEntry ELSE rate_limit[u]]
    /\ rate_limit' # rate_limit
    /\ UNCHANGED << reloj, cache_respuestas_usuario, cache_respuestas_global,
                    cache_lock, en_curso, n_consultas, n_verif, limpieza,
                    ult_cache >>
    /\ UNCHANGED << vars_cola, vars_resto >>

InitMensajes == InitVarsCola /\ InitVarsCache /\ InitVarsResto

NextMensajes ==
    \/ \E m \in MensajesRecibidos : ManejarMensaje(m.user_id, m.texto)
    \/ \E u \in Usuarios, texto \in TextosMensaje : PasarACola(u, texto)
    \/ \E u \in Usuarios, texto \in TextosMensaje : PasarAGeneracion(u, texto)
    \/ \E c \in llamadas : EnqBody(c)
    \/ PurgarRateLimit
    \/ Tick

SpecMensajes == InitMensajes /\ [][NextMensajes]_vars

\* the messages of user u accepted at a time from desde up to, not
\* including, hasta
AceptadosEntre(u, desde, hasta) ==
    {k \in 1..Len(manejados) :
        /\ manejados[k].user_id = u
        /\ manejados[k].resultado = "aceptado"
        /\ desde <= manejados[k].t
        /\ manejados[k].t < hasta}

Nulo == NoEntry

\* the key is not in the dict
Falta == [falta |-> TRUE]

\* the dict c, with c[k] = v unless the key is to be left out
Opcional(c, k, v) == IF v = Falta THEN c ELSE Con(c, k, v)

\* raw entries: with and without each of the keys nombre, rubro (also
\* null), categoria, zona, lat and experiencia
EntradasCrudas ==
    { Opcional(Opcional(Opcional(Opcional(Opcional(Opcional(<< >>,
          "nombre", n), "rubro", r), "categoria", c), "zona", z), "lat", l),
          "experiencia", e) :
        n \in {Falta, [valor |-> "Juan"]},
        r \in {Falta, Nulo, [valor |-> "plomeria"]},
        c \in {Falta, [valor |-> "panaderia"]},
        z \in {Falta, [valor |-> "Gonnet"]},
        l \in {Falta, [valor |-> -3492100]},
        e \in {Falta, [valor |-> 5]} }

\* setup_database.py lines 56-85: normalizar_entrada; raw["nombre"] raises
\* KeyError when the key is missing
normalizar_entrada(raw) ==
    IF "nombre" \notin DOMAIN raw THEN [error |-> "KeyError", registro |-> Nulo]
    ELSE IF "rubro" \in DOMAIN raw
    THEN [error |-> "",
          registro |->
              [nombre |-> raw["nombre"], tipo |-> [valor |-> "servicio"],
               rubro |-> Get(raw, "rubro", Nulo),
               experiencia |-> Get(raw, "experiencia", Nulo),
               contacto |-> Get(raw, "contacto", Nulo),
               categoria |-> Nulo, zona |-> Nulo, direccion |-> Nulo,
               horarios |-> Nulo, lat |-> Nulo, lon |-> Nulo, maps |-> Nulo]]
    ELSE [error |-> "",
          registro |->
              [nombre |-> raw["nombre"], tipo |-> [valor |-> "comercio"],
               categoria |-> Get(raw, "categoria", Nulo),
               zona |-> Get(raw, "zona", Nulo),
               direccion |-> Get(raw, "direccion", Nulo),
               horarios |-> Get(raw, "horarios", Nulo),
               lat |-> Get(raw, "lat", Nulo), lon |-> Get(raw, "lon", Nulo),
               maps |-> Get(raw, "maps", Nulo),
               contacto |-> Get(raw, "contacto", Nulo),
               rubro |-> Nulo, experiencia |-> Nulo]]

\* the argument
InitNormalizar ==
    /\ InitPrograma
    /\ entrada \in [raw : EntradasCrudas]
    /\ salida = NoEntry

\* setup_database.py line 119: entrada = normalizar_entrada(raw)
Normalizar ==
    /\ salida = NoEntry
    /\ salida' = normalizar_entrada(entrada.raw)
    /\ UNCHANGED << entrada, vars_programa >>

NextNormalizar == Normalizar

SpecNormalizar == InitNormalizar /\ [][NextNormalizar]_vars

\* C29: the record made of a raw entry has exactly one of categoria and
\* rubro populated, and a record of type servicio has categoria, zona,
\* direccion, horarios, lat, lon and maps all null.
C29_CategoriaORubro ==
    (salida # NoEntry /\ salida.error = "") =>
        LET r == salida.registro
        IN /\ (r.categoria # Nulo) # (r.rubro # Nulo)
           /\ r.tipo = [valor |-> "servicio"] =>
                  /\ r.categoria = Nulo /\ r.zona = Nulo /\ r.direccion = Nulo
                  /\ r.horarios = Nulo /\ r.lat = Nulo /\ r.lon = Nulo
                  /\ r.maps = Nulo

\* ------------------------------------------------- the queue, with fairness
\* Every task _esperar_y_procesar wakes from asyncio.sleep and gets the lock
\* (FlushAcquire); the critical sections hold no await and run to their end
\* (EnqBody, FlushBody).  Nothing is asked of the arrival of messages.
JusticiaCola ==
    /\ WF_vars(FlushAcquire)
    /\ WF_vars(\E i \in 1..Len(tareas) : FlushBody(i))
    /\ WF_vars(\E c \in llamadas : EnqBody(c))

SpecColaJusta == SpecCola /\ JusticiaCola

\* C30: when a user stops sending messages the buffer of the user is in
\* the end flushed and removed; no message stays in a buffer for ever.
C30_ColaSeVacia ==
    \A u \in Usuarios :
        (cola_mensajes[u] # NoEntry) ~> (cola_mensajes[u] = NoEntry)

\* the buffer of a user held two messages and was flushed
C30_Witness ==
    /\ ult_cola.op = "flush"
    /\ cola_mensajes[ult_cola.user_id] = NoEntry
    /\ Len(enviados[ult_cola.user_id]) >= 2
    /\ \E k \in 1..Len(turnos) :
           /\ turnos[k].user_id = ult_cola.user_id
           /\ Len(turnos[k].mensajes) = 2

\* ---------------------------------------- properties of obtener_respuesta
\* C31: on a cache hit the turn returns the stored reply without calling
\* retrieval or the generation service, leaves the cache unchanged, and
\* appends that reply to the user's saved history as an assistant message.
C31_CaminoDelHit ==
    [][\A id \in 1..Len(pedidos) :
          (pedidos[id].estado = "llamada" /\ pedidos'[id].estado = "hit") =>
              LET u == pedidos[id].user_id
                  n == Posicion(cache_respuestas_usuario, pedidos'[id].cache_key)
                  h == LRUGet(historiales_memoria', u, << >>)
              IN /\ n # 0
                 /\ pedidos'[id].respuesta = cache_respuestas_usuario[n].respuesta
                 /\ ult_turno'.op = "hit"
                 /\ ult_turno'.respuesta = cache_respuestas_usuario[n].respuesta
                 /\ pedidos'[id].servicios = << >>
                 /\ \A t \in en_turno' : t.id # id
                 /\ cache_respuestas_usuario' = cache_respuestas_usuario
                 /\ Len(h) >= 2
                 /\ h[Len(h)].role = "assistant"
                 /\ h[Len(h)].content = cache_respuestas_usuario[n].respuesta
                 /\ h[Len(h) - 1] =
                        [role |-> "user", content |-> pedidos[id].mensaje,
                         timestamp |-> reloj]
      ]_vars

\* the second call of a user is answered from the cache with the reply
\* generated for the first
C31_Witness ==
    /\ ult_turno.op = "hit"
    /\ Len(pedidos) = 2
    /\ pedidos[1].estado = "listo"
    /\ pedidos[2].estado = "hit"
    /\ pedidos[2].respuesta = pedidos[1].respuesta
    /\ pedidos[2].servicios = << >>

\* ------------------------------------------- generations and incarnations
\* C32: a flush task never claims messages of a buffer incarnation other
\* than the one it was scheduled under: a task whose generation equals the
\* generation of the user's buffer was created by the enqueue that gave the
\* buffer that generation, also after a flush deleted the buffer and a later
\* enqueue recreated it with the generation restarting from 1; and no two
\* tasks of a user hold the same generation.
C32_GeneracionDeUnEnqueue ==
    \A i \in 1..Len(tareas) :
        LET t == tareas[i]
            entry == cola_mensajes[t.user_id]
        IN /\ (entry # NoEntry /\ entry.generation = t.generation)
                  => entry.update = t.update
           /\ \A j \in 1..Len(tareas) :
                  (/\ tareas[j].user_id = t.user_id
                   /\ tareas[j].generation = t.generation) => j = i

\* a buffer was flushed and deleted, and an enqueue has recreated it with
\* generation 1 while a task of another user, scheduled before the
\* deletion, still waits
C32_Witness ==
    /\ ult_cola.op = "enq"
    /\ ult_cola.generation = 1
    /\ \E k \in 1..Len(turnos) : turnos[k].user_id = ult_cola.user_id
    /\ \E i \in 1..Len(tareas) :
           /\ tareas[i].user_id # ult_cola.user_id
           /\ tareas[i].update < ult_cola.update
           /\ tareas[i].generation = 1

\* the roles and contents of the history saved for user u
ContenidoHistorial(u) ==
    LET h == LRUGet(historiales_memoria, u, << >>)
    IN {<< h[i].role, h[i].content >> : i \in 1..Len(h)}

\* C33: when two turns of the same user overlap (the second starts while the
\* first awaits the generation service), the history saved after both have
\* finished contains the user message and the assistant reply of both
\* turns.  (The user has made no other call and less than an hour has
\* passed, so neither the limit of line 1249 nor the window of line 1242
\* drops an entry.)
C33_NingunaPerdida ==
    \A a, b \in 1..Len(pedidos) :
        (/\ a \in pedidos[b].durante
         /\ pedidos[a].estado = "listo"
         /\ pedidos[b].estado \in {"listo", "hit"}
         /\ reloj < VENTANA_HISTORIAL
         /\ \A c \in 1..Len(pedidos) :
                pedidos[c].user_id = pedidos[a].user_id => c \in {a, b})
            => { << "user", pedidos[a].mensaje >>,
                 << "assistant", pedidos[a].respuesta >>,
                 << "user", pedidos[b].mensaje >>,
                 << "assistant", pedidos[b].respuesta >> }
                   \subseteq ContenidoHistorial(pedidos[a].user_id)

\* C34: immediately after a turn stores its reply under a key, that key is
\* present in the cache: the eviction loop of a store never removes the
\* entry it has just inserted, also when the cache is full of entries
\* stored by turns that started later than this one.
C34_RecienGuardadaPresente ==
    \A id \in 1..Len(pedidos) :
        (/\ ult_turno.op = "listo"
         /\ pedidos[id].estado = "listo"
         /\ pedidos[id].respuesta = ult_turno.respuesta)
            => Posicion(cache_respuestas_usuario, pedidos[id].cache_key) # 0

\* ------------------------------------- the turns, after a shared location
\* lines 1569-1575 of manejar_ubicacion: the program after user u1, who has
\* no history, shared a location; no handler has called obtener_respuesta
InitSesionUbicada ==
    /\ InitVarsCola /\ InitVarsCache /\ InitVarsPuro
    /\ manejados = << >>
    /\ usuarios_bienvenida = {"u1"}
    /\ InitVarsTurno(FALSE)
    /\ historiales_memoria = << >>
    /\ \E loc \in UbicacionesSesion :
           ubicaciones_memoria =
               LRUSet(<< >>, MAX_USUARIOS_MEMORIA, "u1", loc)
    /\ uso_memoria = [historial |-> << >>, ubicacion |-> << "u1" >>]
    /\ ult_memoria = [op |-> "turno", user_id |-> "u1"]
    /\ n_memoria = 2

SpecSesionUbicada == InitSesionUbicada /\ [][NextSesion]_vars

\* C35: the candidate data sent to the generation service in a turn of a
\* user who has no stored location contains no distance field, whatever
\* turns of other users with a stored location ran before it or overlap
\* with it.
C35_SinDistancia ==
    \A id \in 1..Len(pedidos) :
        (/\ pedidos[id].estado \in {"llm", "listo", "falla"}
         /\ ~pedidos[id].con_ubicacion)
            => \A dato \in pedidos[id].datos_llm :
                   /\ "distancia" \notin DOMAIN dato
                   /\ "_distancia_km" \notin DOMAIN dato

\* C36: a cache hit in a turn of user A only ever returns a reply that was
\* stored by an earlier turn of user A: no sequence of turns makes a reply
\* generated for one user be served to another user.  (user_id is
\* str(update.effective_user.id), digits only, so the text before the first
\* ":" of the hashed string is the user.)
C36_HitDelMismoUsuario ==
    \A id \in 1..Len(pedidos) :
        pedidos[id].estado = "hit" =>
            /\ \E a \in 1..Len(pedidos) :
                   /\ a # id
                   /\ pedidos[a].estado = "listo"
                   /\ pedidos[a].respuesta = pedidos[id].respuesta
                   /\ pedidos[a].user_id = pedidos[id].user_id
            /\ \A b \in 1..Len(pedidos) :
                   (/\ pedidos[b].estado = "listo"
                    /\ pedidos[b].user_id # pedidos[id].user_id)
                       => pedidos[b].respuesta # pedidos[id].respuesta

\* user u2 is served from the cache, in a turn that follows a shared
\* location or a turn of u2
C36_Witness ==
    /\ ult_turno.op = "hit"
    /\ ult_turno.user_id = "u2"
    /\ \E id \in 1..Len(pedidos) :
           /\ pedidos[id].estado = "hit"
           /\ pedidos[id].user_id = "u2"
           /\ Posicion(cache_respuestas_usuario, pedidos[id].cache_key) # 0
           /\ pedidos[id].cache_key[1] = "u2"

\* ------------------------------------------- the catalog with a backend
\* C37: in a process started with the vector-search backend configured, the
\* in-memory catalog is never loaded and stays empty, so every fallback to
\* the local filter (backend failure or empty backend result) returns an
\* empty list for every query.
C37_FallbackVacio ==
    entrada.supabase =>
        /\ COMERCIOS_COMPACTO = << >>
        /\ (/\ salida # NoEntry
            /\ \/ entrada.backend.tipo \in {"falla_embedding", "falla_rpc"}
               \/ entrada.backend.data = << >>)
               => salida.relevantes = << >>

\* with a backend whose search call fails, a zone query that matches the
\* file data/comercios.json gets nothing
C37_Witness ==
    /\ salida # NoEntry
    /\ entrada.supabase
    /\ entrada.backend.tipo = "falla_rpc"
    /\ entrada.zona # NoEntry
    /\ salida.relevantes = << >>
    /\ filtrar_json_local(CATALOGO, entrada.consulta, entrada.zona,
                          entrada.top_k) # << >>

\* ------------------------------------------ the keys of the synonym table
\* the argument: a query of one word, a key of the table
InitClaves ==
    /\ InitPrograma
    /\ entrada \in [consulta : CLAVES_SINONIMOS]
    /\ salida = NoEntry

\* the call expandir_consulta(k)
ExpandirClave ==
    /\ salida = NoEntry
    /\ \E orden \in Ordenes(Extras(entrada.consulta)) :
           salida' = [expandida |-> expandir_consulta(entrada.consulta, orden)]
    /\ UNCHANGED << entrada, vars_programa >>

NextClaves == ExpandirClave

SpecClaves == InitClaves /\ [][NextClaves]_vars

\* the terms of key k, normalized as line 407 adds them
TerminosDeClave(k) ==
    {normalizar_texto(SINONIMOS(k)[j]) : j \in 1..Len(SINONIMOS(k))}

\* C38: every key of the synonym table can be triggered: for each key k of
\* the table, expanding the one-word query k appends the canonical terms
\* mapped from k, including for keys written with non-ASCII letters.
C38_TodaClaveActiva ==
    salida # NoEntry =>
        /\ SINONIMOS(entrada.consulta) # << >>
        /\ \E orden \in Ordenes(TerminosDeClave(entrada.consulta)) :
               salida.expandida =
                   entrada.consulta \o <<" ">> \o Unir(<<" ">>, orden)

\* ------------------------------------------ the weights of the local filter
\* C39: in the local filter every (word, field) contribution is either 0 or
\* the full weight of the field: the half-weight prefix branch is never
\* taken, because a word that is a prefix of a word of a field is also a
\* substring of that field, so every score is a whole number (an even
\* number of halves).
C39_SinMedioPeso ==
    salida # NoEntry =>
        \A i \in 1..Len(COMERCIOS_COMPACTO) :
            /\ \A n \in 1..Len(PESO_CAMPO) :
                   \A p \in PalabrasFiltro(entrada.consulta) :
                       Aporte(CampoDe(i, PESO_CAMPO[n].campo),
                              PESO_CAMPO[n].peso, p)
                           \in {0, 2 * PESO_CAMPO[n].peso}
            /\ PuntajeDe(i) % 2 = 0

\* "pizza" has five letters and is the start of the word "pizzas" of the
\* tags of "Bar Centro", which is not the word itself: the entry gets the
\* full weight of tags and stands in the result
C39_Witness ==
    /\ salida # NoEntry
    /\ entrada.consulta = <<"p", "i", "z", "z", "a">>
    /\ entrada.zona = NoEntry
    /\ \E w \in Elementos(Palabras(CampoDe(3, "tags"))) :
           /\ EmpiezaCon(w, entrada.consulta)
           /\ w # entrada.consulta
    /\ PuntajeDe(3) = 2
    /\ LugarDe(3) # 0

\* ---------------------------------------------------------- the welcome
\* text messages: a greeting, a greeting with a search, and the command
\* /start
M_Hola == <<"H", "o", "l", "a", "!">>
M_HolaPizza == <<"h", "o", "l", "a", " ", "q", "u", "i", "e", "r", "o", " ", "p", "i", "z", "z", "a">>
M_Start == <<"/", "s", "t", "a", "r", "t">>

TextosBienvenida == {M_Hola, M_HolaPizza, M_Reset}

\* the messages that arrive: greetings and resets from one new user, and
\* greetings with and without a search from another
MensajesBienvenida ==
    {[user_id |-> "u1", texto |-> texto] : texto \in {M_Hola, M_Reset}}
        \cup {[user_id |-> "u2", texto |-> texto] :
                  texto \in {M_Hola, M_HolaPizza}}

\* lines 1536-1566: start up to its reply: the history and the location of
\* the user are deleted and the user is marked as no longer new; the reply
\* is the text of lines 1543-1554, not the welcome of line 1435
Start(u) ==
    /\ Len(manejados) < MaxMensajes
    /\ historiales_memoria' = LRUPop(historiales_memoria, u)
    /\ ubicaciones_memoria' = LRUPop(ubicaciones_memoria, u)
    /\ ult_memoria' = [op |-> "pop", user_id |-> u]
    /\ uso_memoria' =
           [historial |-> SelectSeq(uso_memoria.historial, LAMBDA k : k # u),
            ubicacion |-> SelectSeq(uso_memoria.ubicacion, LAMBDA k : k # u)]
    /\ usuarios_bienvenida' = usuarios_bienvenida \cup {u}
    /\ manejados' = Append(manejados,
           [user_id |-> u, texto |-> M_Start, t |-> reloj,
            resultado |-> "start", respuesta |-> RESPUESTA_START,
            bienvenida |-> FALSE])
    /\ UNCHANGED n_memoria
    /\ UNCHANGED << vars_cola, vars_cache, vars_puro, vars_turno >>

InitBienvenida == InitVarsCola /\ InitVarsCache /\ InitVarsResto

NextBienvenida ==
    \/ \E m \in MensajesBienvenida : ManejarMensaje(m.user_id, m.texto)
    \/ \E u \in Usuarios : Start(u)
    \/ \E u \in Usuarios, texto \in TextosBienvenida : PasarACola(u, texto)
    \/ \E c \in llamadas : EnqBody(c)
    \/ Tick

SpecBienvenida == InitBienvenida /\ [][NextBienvenida]_vars

\* the messages of user u that were answered with the welcome
Bienvenidas(u) ==
    {k \in 1..Len(manejados) :
        manejados[k].user_id = u /\ manejados[k].bienvenida}

\* message k is the first that its user sent to the program
PrimerMensaje(k) ==
    \A j \in 1..(k - 1) : manejados[j].user_id # manejados[k].user_id

\* C40: no user is sent the welcome more than once, whatever the order of
\* the messages, the resets and the /start commands; and a user whose first
\* message is a greeting with no search in it gets the welcome as the only
\* reply to it, and the message reaches neither the buffer nor
\* obtener_respuesta.
C40_BienvenidaUnaVez ==
    /\ \A u \in Usuarios : Cardinality(Bienvenidas(u)) <= 1
    /\ \A k \in 1..Len(manejados) :
           (/\ PrimerMensaje(k)
            /\ es_saludo(manejados[k].texto)
            /\ ~mensaje_tiene_busqueda(manejados[k].texto))
               => /\ manejados[k].bienvenida
                  /\ manejados[k].resultado = "bienvenida"
                  /\ manejados[k].respuesta = ""
                  /\ EnCola(manejados[k].user_id, manejados[k].texto) = 0
                  /\ EnGeneracion(manejados[k].user_id, manejados[k].texto) = 0

\* a new user greets and gets the welcome, resets, and greets again after
\* the window of the rate limit: the second greeting gets the plain greeting
C40_Witness ==
    /\ Len(manejados) = 3
    /\ \A k \in 1..3 : manejados[k].user_id = "u1"
    /\ manejados[1].texto = M_Hola
    /\ manejados[1].bienvenida
    /\ manejados[2].resultado = "reset"
    /\ manejados[3].texto = M_Hola
    /\ manejados[3].resultado = "saludo"
    /\ ~manejados[3].bienvenida
    /\ "u1" \in usuarios_bienvenida
    /\ EnCola("u1", M_Hola) = 0

====
